---------------------------- MODULE Spec2Model ----------------------------
(***************************************************************************)
(* Model of the comparison engine of the repository                        *)
(* (rpd/services/comparison_engine.py) and of the value types it reads     *)
(* (rpd/models.py).                                                        *)
(*                                                                         *)
(* Python values are tagged records: a value of one Python type never has  *)
(* the shape of a value of another, so equality between them is decided by *)
(* the tag.  Python strings are TLA+ strings, read character by character  *)
(* with Head, Tail and SubSeq.  A float that the engine computes as a      *)
(* quotient of two integers is the pair <<numerator, denominator>> in      *)
(* lowest terms, so comparisons with 0.95 and 0.8 are exact.               *)
(*                                                                         *)
(* A local variable that a Python function reads more than once is a       *)
(* parameter of the operator that models the rest of the function, so its  *)
(* value is computed once, as in the code.                                 *)
(***************************************************************************)
EXTENDS Integers, Sequences, FiniteSets, TLC

(***************************************************************************)
(* Bounds of the model.                                                    *)
(***************************************************************************)
\* compare(left, right) is invoked at most MaxCalls times on one input
MaxCalls == 2
\* interpreter processes differ by a string-hash seed in 0 .. MaxSeed
MaxSeed == 1
\* a document tree has 0 .. MaxParts parts
MaxParts == 1
\* the status resolver is applied to diff lists of at most MaxDiffs items,
\* the summary and the narrative to lists of at most 10 + MaxDiffs items
MaxDiffs == 3
\* at most MaxTasks invocations of compare run concurrently
MaxTasks == 2
\* the comparison API is asked for at most MaxJobs asynchronous comparisons
MaxJobs == 2

(***************************************************************************)
(* The state: the two document trees and the options a caller compares,    *)
(* the string-hash seed of the interpreter process, the reports returned   *)
(* so far (each with the order its trees were passed in and the options   *)
(* of the call), a diff list with the status, the severity summary and the *)
(* narrative computed from it on their own, and the invocations of compare *)
(* that run concurrently, each with its position and its local diff lists; *)
(* the arguments of an invocation of _normalize on its own and the value   *)
(* it returned; the job store and the database of the comparison API, the  *)
(* compare_async handlers that run or wait for the database, the number of *)
(* identifiers drawn and the response to the last request.                 *)
(***************************************************************************)
VARIABLES left, right, options, hashseed, reports, diff_list, status_out,
          summary_out, narrative_out, tasks,
          normalize_args, normalized,
          _compare_jobs, db, current, awaiting, uuids, response

\* the state of the comparison API (rpd/api/comparison.py)
apivars == <<_compare_jobs, db, current, awaiting, uuids, response>>

\* the arguments and the result of _normalize
normvars == <<normalize_args, normalized>>

vars == <<left, right, options, hashseed, reports, diff_list, status_out,
          summary_out, narrative_out, tasks, normvars, apivars>>

(***************************************************************************)
(* Python values.                                                          *)
(***************************************************************************)
None == [t |-> "None"]
PyS(s) == [t |-> "str", s |-> s]
PyInt(i) == [t |-> "int", i |-> i]
PyBool(b) == [t |-> "bool", b |-> b]
\* a dict keeps its items in insertion order: a sequence of <<key, value>>
PyDict(items) == [t |-> "dict", items |-> items]
\* a datetime, by its repr() and its str()
DateTime(r, s) == [t |-> "datetime", repr |-> r, iso |-> s]

IsNone(v) == v.t = "None"
\* isinstance(value, (int, float)): bool is a subclass of int
IsNumber(v) == v.t \in {"int", "bool"}
NumberOf(v) == IF v.t = "bool" THEN (IF v.b THEN 1 ELSE 0) ELSE v.i

DictKeys(d) == {d.items[n][1] : n \in 1..Len(d.items)}
\* d.get(k): the value of the last item with key k, None when there is none
DictGet(d, k) ==
    IF k \in DictKeys(d)
    THEN d.items[CHOOSE n \in 1..Len(d.items) :
                    /\ d.items[n][1] = k
                    /\ \A m \in (n+1)..Len(d.items) : d.items[m][1] # k][2]
    ELSE None

\* Python's ==: numbers compare by value across int and bool, dicts by their
\* items whatever the order, everything else by type and value
RECURSIVE PyEq(_, _)
PyEq(a, b) ==
    IF IsNumber(a) /\ IsNumber(b) THEN NumberOf(a) = NumberOf(b)
    ELSE IF a.t = "dict" /\ b.t = "dict"
    THEN /\ DictKeys(a) = DictKeys(b)
         /\ \A k \in DictKeys(a) : PyEq(DictGet(a, k), DictGet(b, k))
    ELSE a = b

\* Python's truth value of a value: None, 0, False, "" and {} are falsy
Truthy(v) ==
    CASE v.t = "None" -> FALSE
      [] v.t = "str" -> v.s # ""
      [] v.t = "int" -> v.i # 0
      [] v.t = "bool" -> v.b
      [] v.t = "dict" -> Len(v.items) > 0
      [] OTHER -> TRUE

\* Python's `a or b`
PyOr(a, b) == IF Truthy(a) THEN a ELSE b

(***************************************************************************)
(* Strings.                                                                *)
(***************************************************************************)
\* the character of s at position i, "" outside the string
CharAt(s, i) == IF i >= 1 /\ i <= Len(s) THEN SubSeq(s, i, i) ELSE ""
\* the characters the regular expression class \s and str.split() take as
\* whitespace
IsSpace(c) == c \in {" ", "\t", "\n", "\r"}
IsDigit(c) == c \in {"0", "1", "2", "3", "4", "5", "6", "7", "8", "9"}

LowerChar(c) ==
    CASE c = "A" -> "a" [] c = "B" -> "b" [] c = "C" -> "c" [] c = "D" -> "d"
      [] c = "E" -> "e" [] c = "F" -> "f" [] c = "G" -> "g" [] c = "H" -> "h"
      [] c = "I" -> "i" [] c = "J" -> "j" [] c = "K" -> "k" [] c = "L" -> "l"
      [] c = "M" -> "m" [] c = "N" -> "n" [] c = "O" -> "o" [] c = "P" -> "p"
      [] c = "Q" -> "q" [] c = "R" -> "r" [] c = "S" -> "s" [] c = "T" -> "t"
      [] c = "U" -> "u" [] c = "V" -> "v" [] c = "W" -> "w" [] c = "X" -> "x"
      [] c = "Y" -> "y" [] c = "Z" -> "z" [] OTHER -> c

\* the concatenation of the strings pieces[lo], ..., pieces[hi]
RECURSIVE ConcatRange(_, _, _)
ConcatRange(pieces, lo, hi) ==
    IF lo > hi THEN ""
    ELSE IF lo = hi THEN pieces[lo]
    ELSE LET mid == (lo + hi) \div 2
         IN  ConcatRange(pieces, lo, mid) \o ConcatRange(pieces, mid + 1, hi)

Concat(pieces) == ConcatRange(pieces, 1, Len(pieces))

Min(S) == CHOOSE n \in S : \A m \in S : n <= m

\* s with each position i in the domain of repl replaced by the string
\* repl[i]: positions lo..hi of s, rewritten
RECURSIVE RewriteRange(_, _, _, _)
RewriteRange(s, repl, lo, hi) ==
    IF lo > hi THEN ""
    ELSE IF (DOMAIN repl) \cap (lo..hi) = {} THEN SubSeq(s, lo, hi)
    ELSE IF lo = hi THEN repl[lo]
    ELSE LET mid == (lo + hi) \div 2
         IN  RewriteRange(s, repl, lo, mid) \o RewriteRange(s, repl, mid + 1, hi)

Rewrite(s, repl) == RewriteRange(s, repl, 1, Len(s))

\* str.lower(): every upper-case letter becomes its lower-case letter
lower(s) ==
    Rewrite(s, [i \in {j \in 1..Len(s) : LowerChar(CharAt(s, j)) # CharAt(s, j)}
                  |-> LowerChar(CharAt(s, i))])

\* s holds something else than whitespace
HasNonSpace(s) == \E i \in 1..Len(s) : ~IsSpace(CharAt(s, i))
\* the positions of the first and of the last character that is no whitespace
FirstNonSpace(s) ==
    CHOOSE i \in 1..Len(s) :
        ~IsSpace(CharAt(s, i)) /\ \A j \in 1..(i - 1) : IsSpace(CharAt(s, j))
LastNonSpace(s) ==
    CHOOSE i \in 1..Len(s) :
        ~IsSpace(CharAt(s, i)) /\ \A j \in (i + 1)..Len(s) : IsSpace(CharAt(s, j))

lstrip(s) ==
    IF HasNonSpace(s) THEN SubSeq(s, FirstNonSpace(s), Len(s)) ELSE ""

\* str.strip()
strip(s) ==
    IF HasNonSpace(s) THEN SubSeq(s, FirstNonSpace(s), LastNonSpace(s)) ELSE ""

\* `sub in s` for strings
Contains(s, sub) ==
    \E i \in 1..(Len(s) - Len(sub) + 1) : SubSeq(s, i, i + Len(sub) - 1) = sub

\* the length of the run of digits of s that starts at position i
RECURSIVE DigitRun(_, _)
DigitRun(s, i) ==
    IF i <= Len(s) /\ IsDigit(CharAt(s, i)) THEN 1 + DigitRun(s, i + 1) ELSE 0

\* the prefix of s up to its first whitespace character
RECURSIVE FirstToken(_)
FirstToken(s) ==
    IF s = "" \/ IsSpace(Head(s)) THEN "" ELSE Head(s) \o FirstToken(Tail(s))

\* set(s.split()): the set of the maximal whitespace-free pieces of s
RECURSIVE SplitSet(_)
\* r starts with the piece tok: tok, and the pieces of what follows it
SplitAfter(r, tok) == {tok} \cup SplitSet(SubSeq(r, Len(tok) + 1, Len(r)))
\* the pieces of r, which has no leading whitespace
SplitStripped(r) == IF r = "" THEN {} ELSE SplitAfter(r, FirstToken(r))
SplitSet(s) == SplitStripped(lstrip(s))

\* " ".join(seq)
RECURSIVE Join(_, _)
Join(sep, seq) ==
    IF seq = <<>> THEN ""
    ELSE IF Len(seq) = 1 THEN seq[1]
    ELSE seq[1] \o sep \o Join(sep, Tail(seq))

(***************************************************************************)
(* str() and repr() of a value.                                            *)
(***************************************************************************)
RECURSIVE PyRepr(_)
\* the items of a dict as repr() writes them: 'key': value, ...
ReprItems(items) ==
    Concat([n \in 1..Len(items) |->
              "'" \o items[n][1] \o "': " \o PyRepr(items[n][2])
              \o (IF n < Len(items) THEN ", " ELSE "")])
PyRepr(v) ==
    CASE v.t = "None" -> "None"
      [] v.t = "str" -> "'" \o v.s \o "'"
      [] v.t = "int" -> ToString(v.i)
      [] v.t = "bool" -> (IF v.b THEN "True" ELSE "False")
      [] v.t = "dict" -> "{" \o ReprItems(v.items) \o "}"
      [] v.t = "datetime" -> v.repr

PyStr(v) ==
    CASE v.t = "str" -> v.s
      [] v.t = "datetime" -> v.iso
      [] OTHER -> PyRepr(v)

(***************************************************************************)
(* _normalize.                                                             *)
(***************************************************************************)
\* re.sub(r"\s+", " ", s): every run of whitespace becomes one space
\* the first character of a run becomes a space, the others go
CollapseSpace(s) ==
    Rewrite(s, [i \in {j \in 1..Len(s) :
                        /\ IsSpace(CharAt(s, j))
                        /\ (IsSpace(CharAt(s, j - 1)) \/ CharAt(s, j) # " ")}
                  |-> IF IsSpace(CharAt(s, i - 1)) THEN "" ELSE " "])

IsDateSep(c) == c \in {"-", "/"}

\* A match of (\d{1,4})[-/](\d{1,2})[-/](\d{1,4}) that starts at position i:
\* the first two groups are whole digit runs (a longer run leaves a digit
\* where the separator must be), the third takes up to four digits.
DateMatch(s, i) ==
    LET r1 == DigitRun(s, i)
        s1 == i + r1
        r2 == DigitRun(s, s1 + 1)
        s2 == s1 + 1 + r2
        r3 == DigitRun(s, s2 + 1)
        n3 == IF r3 > 4 THEN 4 ELSE r3
    IN  IF /\ r1 >= 1 /\ r1 <= 4 /\ IsDateSep(CharAt(s, s1))
           /\ r2 >= 1 /\ r2 <= 2 /\ IsDateSep(CharAt(s, s2))
           /\ r3 >= 1
        THEN [ok |-> TRUE,
              text |-> SubSeq(s, i, s1 - 1) \o "-" \o SubSeq(s, s1 + 1, s2 - 1)
                       \o "-" \o SubSeq(s, s2 + 1, s2 + n3),
              next |-> s2 + n3 + 1]
        ELSE [ok |-> FALSE, text |-> "", next |-> i + 1]

\* re.sub of the date pattern by r"\1-\2-\3", scanning s from position i:
\* the leftmost match at or after i is rewritten and the scan goes on
\* behind it
RECURSIVE SubDates(_, _)
\* the scan from position i meets the match m at position j
SubDatesMatch(s, i, j, m) ==
    SubSeq(s, i, j - 1) \o m.text \o SubDates(s, m.next)
\* the scan from position i, starts being the positions at or after i where
\* the pattern matches
SubDatesFrom(s, i, starts) ==
    IF starts = {} THEN SubSeq(s, i, Len(s))
    ELSE SubDatesMatch(s, i, Min(starts), DateMatch(s, Min(starts)))
SubDates(s, i) == SubDatesFrom(s, i, {j \in i..Len(s) : DateMatch(s, j).ok})

IsCurrencySymbol(c) == c \in {"$", "€", "£"}

\* re.sub(r"[$€£]\s*", "", s): a symbol goes, and with it the whitespace
\* that follows it
SubCurrencySymbols(s) ==
    LET symbols == {j \in 1..Len(s) : IsCurrencySymbol(CharAt(s, j))}
        spaces == IF symbols = {} THEN {}
                  ELSE {i \in 1..Len(s) :
                          /\ IsSpace(CharAt(s, i))
                          /\ \E j \in symbols :
                                /\ j < i
                                /\ \A m \in (j + 1)..i : IsSpace(CharAt(s, m))}
    IN  Rewrite(s, [i \in symbols \cup spaces |-> ""])

\* re.sub(r",(?=\d{3})", "", s): a comma goes when three digits follow it
SubThousands(s) ==
    Rewrite(s, [i \in {j \in 1..Len(s) :
                        CharAt(s, j) = "," /\ DigitRun(s, j + 1) >= 3}
                  |-> ""])

\* the text of a value, normalized without str.lower()
NormalizeTextKeepingCase(s0, normalize_dates, normalize_currency) ==
    LET s1 == CollapseSpace(strip(s0))
        s2 == IF normalize_dates THEN SubDates(s1, 1) ELSE s1
    IN  IF normalize_currency
        THEN SubThousands(SubCurrencySymbols(s2)) ELSE s2

NormalizeText(s0, normalize_dates, normalize_currency) ==
    LET s1 == CollapseSpace(lower(strip(s0)))
        s2 == IF normalize_dates THEN SubDates(s1, 1) ELSE s1
    IN  IF normalize_currency
        THEN SubThousands(SubCurrencySymbols(s2)) ELSE s2

_normalize(value, normalize_dates, normalize_currency) ==
    IF IsNone(value) THEN None
    ELSE IF IsNumber(value) THEN value
    ELSE PyS(NormalizeText(PyStr(value), normalize_dates, normalize_currency))

(***************************************************************************)
(* The models of rpd/models.py and their model_dump().                     *)
(***************************************************************************)
TechnicalMetadata(file_name, hash_sha256) ==
    [t |-> "TechnicalMetadata",
     file_name |-> PyS(file_name),
     mime_type |-> PyS("application/pdf"),
     extension |-> PyS(".pdf"),
     file_size_bytes |-> PyInt(1),
     hash_sha256 |-> PyS(hash_sha256),
     hash_md5 |-> None,
     created_at_ingested |-> DateTime("datetime.datetime(2020, 1, 2, 0, 0)",
                                      "2020-01-02 00:00:00"),
     source_system |-> PyS(""),
     source_uri |-> None,
     encryption_flag |-> PyBool(FALSE),
     password_protected_flag |-> PyBool(FALSE),
     embedded_object_count |-> None]

\* extra: the fields the model does not declare (model_config extra="allow")
EmbeddedMetadata(creator, producer, modified_date, subject, extra) ==
    [t |-> "EmbeddedMetadata",
     title |-> None, author |-> None, creator |-> creator,
     producer |-> producer, creation_date |-> None,
     modified_date |-> modified_date, page_count |-> None, exif |-> None,
     last_modified_by |-> None, revision |-> None, from_addr |-> None,
     to_addr |-> None, cc |-> None, bcc |-> None, date |-> None,
     subject |-> subject, message_id |-> None, attachments |-> None,
     extra |-> extra]

ContentMetadata(page_count, table_count, form_field_count, signature_count) ==
    [t |-> "ContentMetadata",
     language |-> None, language_confidence |-> None,
     page_count |-> page_count, sheet_count |-> None, slide_count |-> None,
     text_length |-> PyInt(0), word_count |-> PyInt(0),
     table_count |-> PyInt(table_count),
     form_field_count |-> PyInt(form_field_count),
     selection_count |-> PyInt(0),
     signature_count |-> PyInt(signature_count),
     entity_counts |-> None]

DocumentRoot(id, technical_metadata, embedded_metadata, content_metadata) ==
    [t |-> "DocumentRoot", id |-> PyS(id),
     technical_metadata |-> technical_metadata,
     embedded_metadata |-> embedded_metadata,
     content_metadata |-> content_metadata,
     confidence |-> None]

Part(id) == [t |-> "Part", id |-> PyS(id), part_type |-> PyS("page")]

\* of a block, the fields the engine reads, and its id
Block(id, block_type, content, value, key) ==
    [t |-> "Block", id |-> PyS(id), block_type |-> block_type,
     content |-> content, value |-> value, key |-> key]

Provenance(run_id) ==
    [t |-> "Provenance", run_id |-> PyS(run_id), extractor_version |-> PyS("1")]

ExtractionResult(document, parts, blocks, provenance) ==
    [document |-> document, parts |-> parts, blocks |-> blocks,
     provenance |-> provenance]

DiffItem(diff_type, path, left_value, right_value, severity, description) ==
    [diff_type |-> diff_type, path |-> path, left_value |-> left_value,
     right_value |-> right_value, severity |-> severity,
     left_block_id |-> None, right_block_id |-> None,
     left_confidence |-> None, right_confidence |-> None,
     description |-> description]

DumpTechnicalMetadata(m) ==
    PyDict(<< <<"file_name", m.file_name>>, <<"mime_type", m.mime_type>>,
              <<"extension", m.extension>>,
              <<"file_size_bytes", m.file_size_bytes>>,
              <<"hash_sha256", m.hash_sha256>>, <<"hash_md5", m.hash_md5>>,
              <<"created_at_ingested", m.created_at_ingested>>,
              <<"source_system", m.source_system>>,
              <<"source_uri", m.source_uri>>,
              <<"encryption_flag", m.encryption_flag>>,
              <<"password_protected_flag", m.password_protected_flag>>,
              <<"embedded_object_count", m.embedded_object_count>> >>)

DumpEmbeddedMetadata(m) ==
    PyDict(<< <<"title", m.title>>, <<"author", m.author>>,
              <<"creator", m.creator>>, <<"producer", m.producer>>,
              <<"creation_date", m.creation_date>>,
              <<"modified_date", m.modified_date>>,
              <<"page_count", m.page_count>>, <<"exif", m.exif>>,
              <<"last_modified_by", m.last_modified_by>>,
              <<"revision", m.revision>>, <<"from_addr", m.from_addr>>,
              <<"to_addr", m.to_addr>>, <<"cc", m.cc>>, <<"bcc", m.bcc>>,
              <<"date", m.date>>, <<"subject", m.subject>>,
              <<"message_id", m.message_id>>,
              <<"attachments", m.attachments>> >> \o m.extra)

DumpContentMetadata(m) ==
    PyDict(<< <<"language", m.language>>,
              <<"language_confidence", m.language_confidence>>,
              <<"page_count", m.page_count>>, <<"sheet_count", m.sheet_count>>,
              <<"slide_count", m.slide_count>>,
              <<"text_length", m.text_length>>, <<"word_count", m.word_count>>,
              <<"table_count", m.table_count>>,
              <<"form_field_count", m.form_field_count>>,
              <<"selection_count", m.selection_count>>,
              <<"signature_count", m.signature_count>>,
              <<"entity_counts", m.entity_counts>> >>)

\* DocumentRoot.model_dump(): nested models become dicts, an absent one None
DumpDocumentRoot(d) ==
    PyDict(<< <<"id", d.id>>,
              <<"technical_metadata", DumpTechnicalMetadata(d.technical_metadata)>>,
              <<"embedded_metadata",
                IF IsNone(d.embedded_metadata) THEN None
                ELSE DumpEmbeddedMetadata(d.embedded_metadata)>>,
              <<"content_metadata",
                IF IsNone(d.content_metadata) THEN None
                ELSE DumpContentMetadata(d.content_metadata)>>,
              <<"confidence", d.confidence>> >>)

(***************************************************************************)
(* Dicts and sets as the engine builds and walks them.                     *)
(***************************************************************************)
\* items[k] = v: the value of an existing key is replaced in place, a new
\* key goes to the end
DictSet(items, k, v) ==
    IF \E n \in 1..Len(items) : items[n][1] = k
    THEN [n \in 1..Len(items) |->
            IF items[n][1] = k THEN <<k, v>> ELSE items[n]]
    ELSE Append(items, <<k, v>>)

\* out.update(more)
RECURSIVE DictUpdate(_, _)
DictUpdate(items, more) ==
    IF more = <<>> THEN items
    ELSE DictUpdate(DictSet(items, more[1][1], more[1][2]), Tail(more))

\* the keys of a dict in its order
KeySeq(items) == [n \in 1..Len(items) |-> items[n][1]]

\* seq followed by the elements of more that are not in it yet
RECURSIVE UnionSeq(_, _)
UnionSeq(seq, more) ==
    IF more = <<>> THEN seq
    ELSE UnionSeq(IF \E n \in 1..Len(seq) : seq[n] = more[1]
                  THEN seq ELSE Append(seq, more[1]), Tail(more))

\* seq without its element at position n
RemoveAt(seq, n) == SubSeq(seq, 1, n - 1) \o SubSeq(seq, n + 1, Len(seq))

\* the k-th arrangement of seq (k = 0: seq itself)
RECURSIVE NthPerm(_, _)
NthPerm(seq, k) ==
    IF seq = <<>> THEN <<>>
    ELSE LET n == (k % Len(seq)) + 1
         IN  <<seq[n]>> \o NthPerm(RemoveAt(seq, n), k \div Len(seq))

\* the keys of a followed by the keys of b, a key of both being visited twice
ListIterOrder(a_keys, b_keys, seed) == NthPerm(a_keys \o b_keys, seed)

\* The order in which `for key in set(a) | set(b)` visits the keys.  A set
\* of strings is walked in the order of the strings' hashes, which the
\* interpreter salts with a seed drawn when the process starts: within a
\* process the order of a given set is fixed, between processes it is any
\* arrangement.  The seed indexes the arrangements.
SetIterOrder(a_keys, b_keys, seed) == NthPerm(UnionSeq(a_keys, b_keys), seed)

(***************************************************************************)
(* The field flattener and the metadata differ.                            *)
(***************************************************************************)
GeometryMarkers == <<"x", "y", "width", "height">>

\* any(x in str(v) for x in ["x", "y", "width", "height"])
MentionsGeometry(v) ==
    \E n \in 1..Len(GeometryMarkers) : Contains(PyStr(v), GeometryMarkers[n])

RECURSIVE collect_fields(_, _)
RECURSIVE CollectLoop(_, _, _)
\* the body of `for k, v in d.items()`, out being the dict built so far
CollectLoop(items, prefix, out) ==
    IF items = <<>> THEN out
    ELSE LET k == items[1][1]
             v == items[1][2]
             path == IF prefix # "" THEN prefix \o "." \o k ELSE k
         IN  IF v.t = "dict" /\ ~MentionsGeometry(v)
             THEN CollectLoop(Tail(items), prefix,
                              DictUpdate(out, collect_fields(v, path)))
             ELSE IF ~IsNone(v)
             THEN CollectLoop(Tail(items), prefix, DictSet(out, path, v))
             ELSE CollectLoop(Tail(items), prefix, out)
collect_fields(d, prefix) == CollectLoop(d.items, prefix, <<>>)

\* the severity of a changed metadata value at path key
MetadataSeverity(key) ==
    IF Contains(key, "creator") \/ Contains(key, "producer")
       \/ Contains(key, "modified") \/ Contains(key, "hash")
    THEN "high" ELSE "medium"

\* one pass of the loop over all_keys: the items it appends for key
\* MetadataStep without the comparison of the normalized values
MetadataStepRawOnly(key, lv, rv, normalize) ==
    IF IsNone(lv) /\ ~IsNone(rv)
    THEN <<DiffItem("added", key, None, rv, "low", "")>>
    ELSE IF ~IsNone(lv) /\ IsNone(rv)
    THEN <<DiffItem("removed", key, lv, None, "low", "")>>
    ELSE IF ~PyEq(lv, rv)
    THEN <<DiffItem("changed", key, lv, rv, MetadataSeverity(key), "")>>
    ELSE <<>>

\* lv and rv are left_flat.get(key) and right_flat.get(key)
MetadataStep(key, lv, rv, normalize) ==
    IF IsNone(lv) /\ ~IsNone(rv)
    THEN <<DiffItem("added", key, None, rv, "low", "")>>
    ELSE IF ~IsNone(lv) /\ IsNone(rv)
    THEN <<DiffItem("removed", key, lv, None, "low", "")>>
    ELSE IF ~PyEq(lv, rv)
    THEN LET ln == IF normalize THEN _normalize(lv, TRUE, TRUE) ELSE lv
             rn == IF normalize THEN _normalize(rv, TRUE, TRUE) ELSE rv
         IN  IF ~PyEq(ln, rn)
             THEN <<DiffItem("changed", key, lv, rv, MetadataSeverity(key), "")>>
             ELSE <<>>
    ELSE <<>>

RECURSIVE MetadataLoop(_, _, _, _)
MetadataLoop(keys, left_flat, right_flat, normalize) ==
    IF keys = <<>> THEN <<>>
    ELSE MetadataStep(keys[1], DictGet(PyDict(left_flat), keys[1]),
                      DictGet(PyDict(right_flat), keys[1]), normalize)
         \o MetadataLoop(Tail(keys), left_flat, right_flat, normalize)

\* the loop over all_keys = set(left_flat) | set(right_flat)
MetadataWalk(left_flat, right_flat, normalize) ==
    MetadataLoop(SetIterOrder(KeySeq(left_flat), KeySeq(right_flat), hashseed),
                 left_flat, right_flat, normalize)

_metadata_diffs(l, r, normalize) ==
    MetadataWalk(collect_fields(DumpDocumentRoot(l.document), ""),
                 collect_fields(DumpDocumentRoot(r.document), ""), normalize)

(***************************************************************************)
(* The structure differ.                                                   *)
(***************************************************************************)
\* _get without its `or default`
GetWithoutDefault(obj, name) ==
    IF IsNone(obj) THEN PyInt(0) ELSE obj[name]

\* _get(obj, name): 0 for an absent object and for an absent or zero counter
_get(obj, name) ==
    IF IsNone(obj) THEN PyInt(0) ELSE PyOr(obj[name], PyInt(0))

check(name, lv, rv, severity) ==
    IF ~PyEq(lv, rv)
    THEN <<DiffItem("changed", "content_metadata." \o name, lv, rv, severity, "")>>
    ELSE <<>>

_structure_diffs(l, r) ==
    LET lc == l.document.content_metadata
        rc == r.document.content_metadata
    IN  check("page_count", _get(lc, "page_count"), _get(rc, "page_count"), "high")
        \o check("table_count", _get(lc, "table_count"), _get(rc, "table_count"), "high")
        \o check("form_field_count", _get(lc, "form_field_count"),
                 _get(rc, "form_field_count"), "medium")
        \o check("signature_count", _get(lc, "signature_count"),
                 _get(rc, "signature_count"), "high")
        \o (IF Len(l.parts) # Len(r.parts)
            THEN <<DiffItem("changed", "parts.length", PyInt(Len(l.parts)),
                            PyInt(Len(r.parts)), "high", "")>>
            ELSE <<>>)

(***************************************************************************)
(* Text similarity and the content differ.                                 *)
(***************************************************************************)
RECURSIVE GCD(_, _)
GCD(a, b) == IF b = 0 THEN a ELSE GCD(b, a % b)

\* the float n / d, d > 0, as a fraction in lowest terms
Ratio(n, d) == LET g == GCD(n, d) IN <<n \div g, d \div g>>
Less(p, q) == p[1] * q[2] < q[1] * p[2]

\* f"{sim:.2f}" for 0 <= sim <= 1: hundredths, rounded half to even
Fmt2(p) ==
    LET q == (100 * p[1]) \div p[2]
        r == (100 * p[1]) % p[2]
        h == IF 2 * r > p[2] \/ (2 * r = p[2] /\ q % 2 = 1) THEN q + 1 ELSE q
    IN  IF h >= 100 THEN "1.00"
        ELSE "0." \o ToString(h \div 10) \o ToString(h % 10)

\* Jaccard with the tokens of the left text alone as the denominator
JaccardOverLeft(aa, bb) ==
    LET inter == Cardinality(aa \cap bb)
        union == IF Cardinality(aa) # 0 THEN Cardinality(aa) ELSE 1
    IN  Ratio(inter, union)

\* inter / union for the token sets aa and bb
Jaccard(aa, bb) ==
    LET inter == Cardinality(aa \cap bb)
        union == IF Cardinality(aa \cup bb) # 0
                 THEN Cardinality(aa \cup bb) ELSE 1
    IN  Ratio(inter, union)

_text_similarity(a, b) ==
    IF a = "" /\ b = "" THEN Ratio(1, 1)
    ELSE IF a = "" \/ b = "" THEN Ratio(0, 1)
    ELSE Jaccard(SplitSet(lower(a)), SplitSet(lower(b)))

\* " ".join(b.content or "" for b in blocks if b.content)
DocumentText(blocks) ==
    LET with_content == SelectSeq(blocks, LAMBDA b : Truthy(b.content))
    IN  Join(" ", [n \in 1..Len(with_content) |->
                     PyStr(PyOr(with_content[n].content, PyS("")))])

\* {(b.key or "").lower(): b.value or b.content
\*  for b in blocks if b.block_type == "kv" and b.key}
\* KvDict without its test `and b.key`
RECURSIVE KvDictOfEveryBlock(_, _)
KvDictOfEveryBlock(blocks, out) ==
    IF blocks = <<>> THEN out
    ELSE LET b == blocks[1]
         IN  IF b.block_type = "kv"
             THEN KvDictOfEveryBlock(Tail(blocks),
                         DictSet(out, lower(PyStr(PyOr(b.key, PyS("")))),
                                 PyOr(b.value, b.content)))
             ELSE KvDictOfEveryBlock(Tail(blocks), out)

RECURSIVE KvDict(_, _)
KvDict(blocks, out) ==
    IF blocks = <<>> THEN out
    ELSE LET b == blocks[1]
         IN  IF b.block_type = "kv" /\ Truthy(b.key)
             THEN KvDict(Tail(blocks),
                         DictSet(out, lower(PyStr(PyOr(b.key, PyS("")))),
                                 PyOr(b.value, b.content)))
             ELSE KvDict(Tail(blocks), out)

\* KvStep reporting two differing values of a key as a critical conflict
KvStepConflict(k, lv, rv, normalize) ==
    IF IsNone(lv)
    THEN <<DiffItem("added", "kv." \o k, None, rv, "medium", "")>>
    ELSE IF IsNone(rv)
    THEN <<DiffItem("removed", "kv." \o k, lv, None, "medium", "")>>
    ELSE LET ln == IF normalize THEN _normalize(lv, TRUE, TRUE) ELSE lv
             rn == IF normalize THEN _normalize(rv, TRUE, TRUE) ELSE rv
         IN  IF ~PyEq(ln, rn)
             THEN <<DiffItem("conflict", "kv." \o k, lv, rv, "critical", "")>>
             ELSE <<>>

\* one pass of the loop over the keys of both sides
\* lv and rv are l_kv.get(k) and r_kv.get(k)
KvStep(k, lv, rv, normalize) ==
    IF IsNone(lv)
    THEN <<DiffItem("added", "kv." \o k, None, rv, "medium", "")>>
    ELSE IF IsNone(rv)
    THEN <<DiffItem("removed", "kv." \o k, lv, None, "medium", "")>>
    ELSE LET ln == IF normalize THEN _normalize(lv, TRUE, TRUE) ELSE lv
             rn == IF normalize THEN _normalize(rv, TRUE, TRUE) ELSE rv
         IN  IF ~PyEq(ln, rn)
             THEN <<DiffItem("changed", "kv." \o k, lv, rv, "high", "")>>
             ELSE <<>>

RECURSIVE KvLoop(_, _, _, _)
KvLoop(keys, l_kv, r_kv, normalize) ==
    IF keys = <<>> THEN <<>>
    ELSE KvStep(keys[1], DictGet(PyDict(l_kv), keys[1]),
                DictGet(PyDict(r_kv), keys[1]), normalize)
         \o KvLoop(Tail(keys), l_kv, r_kv, normalize)

TableCount(blocks) ==
    Len(SelectSeq(blocks, LAMBDA b : b.block_type = "table"))

\* TextDiff with `sim >= 0.8` for `sim > 0.8`
TextDiffAtLeast(sim) ==
    IF Less(sim, <<95, 100>>)
    THEN <<DiffItem("changed", "blocks.text", None, None,
                    IF ~Less(sim, <<8, 10>>) THEN "medium" ELSE "high",
                    "Text similarity: " \o Fmt2(sim))>>
    ELSE <<>>

\* the 'blocks.text' item, when the similarity is below 0.95
TextDiff(sim) ==
    IF Less(sim, <<95, 100>>)
    THEN <<DiffItem("changed", "blocks.text", None, None,
                    IF Less(<<8, 10>>, sim) THEN "medium" ELSE "high",
                    "Text similarity: " \o Fmt2(sim))>>
    ELSE <<>>

\* the loop over set(l_kv) | set(r_kv)
KvWalk(l_kv, r_kv, normalize) ==
    KvLoop(SetIterOrder(KeySeq(l_kv), KeySeq(r_kv), hashseed),
           l_kv, r_kv, normalize)

\* the 'blocks.table_count' item, when the numbers of tables differ
TableDiff(l_tables, r_tables) ==
    IF l_tables # r_tables
    THEN <<DiffItem("changed", "blocks.table_count", PyInt(l_tables),
                    PyInt(r_tables), "high", "")>>
    ELSE <<>>

\* _content_diffs with the table counts of the content metadata
ContentDiffsByMetadataCount(l, r, normalize) ==
    TextDiff(_text_similarity(DocumentText(l.blocks), DocumentText(r.blocks)))
    \o KvWalk(KvDict(l.blocks, <<>>), KvDict(r.blocks, <<>>), normalize)
    \o TableDiff(_get(l.document.content_metadata, "table_count").i,
                 _get(r.document.content_metadata, "table_count").i)

_content_diffs(l, r, normalize) ==
    TextDiff(_text_similarity(DocumentText(l.blocks), DocumentText(r.blocks)))
    \o KvWalk(KvDict(l.blocks, <<>>), KvDict(r.blocks, <<>>), normalize)
    \o TableDiff(TableCount(l.blocks), TableCount(r.blocks))

(***************************************************************************)
(* Status, severity summary, narrative and the report.                     *)
(***************************************************************************)
CountSeverity(diffs, severity) ==
    Cardinality({n \in 1..Len(diffs) : diffs[n].severity = severity})

\* _compute_status without its test for a 'medium' item
ComputeStatusIgnoringMedium(diffs, threshold) ==
    LET critical == CountSeverity(diffs, "critical")
        high == CountSeverity(diffs, "high")
    IN  IF critical > 0 THEN "conflict"
        ELSE IF high > 0 THEN "partial_match"
        ELSE "match"

_compute_status(diffs, threshold) ==
    LET critical == CountSeverity(diffs, "critical")
        high == CountSeverity(diffs, "high")
    IN  IF critical > 0 THEN "conflict"
        ELSE IF high > 2 THEN "partial_match"
        ELSE IF high > 0 \/ \E n \in 1..Len(diffs) : diffs[n].severity = "medium"
        THEN "partial_match"
        ELSE "match"

\* _severity_summary with `s[d.severity] = 1` for `s[d.severity] += 1`
SeveritySummaryAssigning(diffs) ==
    [low |-> IF CountSeverity(diffs, "low") > 0 THEN 1 ELSE 0,
     medium |-> IF CountSeverity(diffs, "medium") > 0 THEN 1 ELSE 0,
     high |-> IF CountSeverity(diffs, "high") > 0 THEN 1 ELSE 0,
     critical |-> IF CountSeverity(diffs, "critical") > 0 THEN 1 ELSE 0]

_severity_summary(diffs) ==
    [low |-> CountSeverity(diffs, "low"),
     medium |-> CountSeverity(diffs, "medium"),
     high |-> CountSeverity(diffs, "high"),
     critical |-> CountSeverity(diffs, "critical")]

NarrativePart(d) ==
    IF d.diff_type = "added" THEN "Added: " \o d.path
    ELSE IF d.diff_type = "removed" THEN "Removed: " \o d.path
    ELSE "Changed: " \o d.path

\* _narrative without the count of the items it leaves out
NarrativeOfFirstTen(diffs) ==
    LET first == SubSeq(diffs, 1, IF Len(diffs) > 10 THEN 10 ELSE Len(diffs))
        parts == [n \in 1..Len(first) |-> NarrativePart(first[n])]
    IN  IF parts # <<>> THEN Join("; ", parts) ELSE "No significant differences"

_narrative(diffs) ==
    LET first == SubSeq(diffs, 1, IF Len(diffs) > 10 THEN 10 ELSE Len(diffs))
        parts == [n \in 1..Len(first) |-> NarrativePart(first[n])]
                 \o (IF Len(diffs) > 10
                     THEN <<"... and " \o ToString(Len(diffs) - 10) \o " more">>
                     ELSE <<>>)
    IN  IF parts # <<>> THEN Join("; ", parts) ELSE "No significant differences"

\* norms.get(name, True)
NormsGet(norms, name) ==
    IF name \in DictKeys(norms) THEN DictGet(norms, name) ELSE PyBool(TRUE)

Max0(n) == IF n > 0 THEN n ELSE 0

\* scores with the structure similarity computed over 20 like the metadata one
ScoresOverTwenty(metadata_diffs, structure_diffs, doc_sim) ==
    [document_level |-> doc_sim,
     metadata_similarity |->
        IF metadata_diffs # <<>>
        THEN Ratio(Max0(20 - Len(metadata_diffs)), 20) ELSE Ratio(1, 1),
     structure_similarity |->
        IF structure_diffs # <<>>
        THEN Ratio(Max0(20 - Len(structure_diffs)), 20) ELSE Ratio(1, 1),
     content_similarity |-> doc_sim,
     per_part |-> <<>>]

\* the SimilarityScores of the report
scores(metadata_diffs, structure_diffs, doc_sim) ==
    [document_level |-> doc_sim,
     metadata_similarity |->
        IF metadata_diffs # <<>>
        THEN Ratio(Max0(20 - Len(metadata_diffs)), 20) ELSE Ratio(1, 1),
     structure_similarity |->
        IF structure_diffs # <<>>
        THEN Ratio(Max0(5 - Len(structure_diffs)), 5) ELSE Ratio(1, 1),
     content_similarity |-> doc_sim,
     per_part |-> <<>>]

\* the report compare builds from its three diff lists and the document
\* similarity; uuid4 and utcnow are what uuid.uuid4() and datetime.utcnow()
\* return in this call
Report(l, r, similarity_threshold, report_id, uuid4, utcnow, metadata_diffs, structure_diffs, content_diffs, all_diffs, doc_sim) ==
    [id |-> PyOr(report_id, uuid4),
     status |-> _compute_status(all_diffs, similarity_threshold),
     similarity_scores |-> scores(metadata_diffs, structure_diffs, doc_sim),
     metadata_diffs |-> metadata_diffs,
     structure_diffs |-> structure_diffs,
     content_diffs |-> content_diffs,
     query_answer_diffs |-> <<>>,
     severity_summary |-> _severity_summary(all_diffs),
     narrative_summary |-> _narrative(all_diffs),
     conflict_resolution |-> None,
     left_provenance |-> l.provenance,
     right_provenance |-> r.provenance,
     left_run_id |-> l.provenance.run_id,
     right_run_id |-> r.provenance.run_id,
     created_at |-> utcnow]

\* Assemble with the status 'match' for a document similarity that reaches
\* the threshold of the caller
AssembleByThreshold(l, r, similarity_threshold, report_id, uuid4, utcnow, metadata_diffs, structure_diffs, content_diffs) ==
    LET doc_sim == _text_similarity(DocumentText(l.blocks), DocumentText(r.blocks))
        rep == Report(l, r, similarity_threshold, report_id, uuid4, utcnow,
                      metadata_diffs, structure_diffs, content_diffs,
                      metadata_diffs \o structure_diffs \o content_diffs,
                      doc_sim)
    IN  IF Less(doc_sim, similarity_threshold) THEN rep
        ELSE [rep EXCEPT !.status = "match"]

\* compare once its three differs have run
Assemble(l, r, similarity_threshold, report_id, uuid4, utcnow, metadata_diffs, structure_diffs, content_diffs) ==
    Report(l, r, similarity_threshold, report_id, uuid4, utcnow,
           metadata_diffs, structure_diffs, content_diffs,
           metadata_diffs \o structure_diffs \o content_diffs,
           _text_similarity(DocumentText(l.blocks), DocumentText(r.blocks)))

\* compare once `normalize` is known
Differs(l, r, normalize, similarity_threshold, report_id, uuid4, utcnow) ==
    Assemble(l, r, similarity_threshold, report_id, uuid4, utcnow,
             _metadata_diffs(l, r, normalize), _structure_diffs(l, r),
             _content_diffs(l, r, normalize))

\* norms.get("dates", True) or norms.get("currency", True)
Normalize(norms) ==
    Truthy(PyOr(NormsGet(norms, "dates"), NormsGet(norms, "currency")))

compare(l, r, normalization_rules, similarity_threshold, document_type, report_id, uuid4, utcnow) ==
    Differs(l, r,
            Normalize(PyOr(normalization_rules,
                           PyDict(<< <<"dates", PyBool(TRUE)>>,
                                     <<"currency", PyBool(TRUE)>> >>))),
            similarity_threshold, report_id, uuid4, utcnow)

(***************************************************************************)
(* The inputs.                                                             *)
(***************************************************************************)
BaseTechnical == TechnicalMetadata("a.pdf", "aaa")
Technicals ==
    <<BaseTechnical, TechnicalMetadata("a.pdf", "bbb"),
      TechnicalMetadata("A.pdf", "aaa")>>

Embedded(producer, subject) ==
    EmbeddedMetadata(None, PyS(producer), None, PyS(subject), <<>>)
Embeddeds ==
    <<None, Embedded("p1", "s1"), Embedded("p2", "s1"), Embedded("p1", "s2")>>

Contents ==
    <<None, ContentMetadata(None, 0, 0, 0), ContentMetadata(PyInt(1), 1, 1, 1),
      ContentMetadata(PyInt(2), 0, 0, 1)>>

BaseDocument == DocumentRoot("d1", BaseTechnical, None, None)
Parts(n) == [i \in 1..n |-> Part("p" \o ToString(i))]

Text(content) == Block("b", "text", content, None, None)
Kv(key, value, content) == Block("b", "kv", content, value, key)
Table == Block("b", "table", None, None, None)

\* block lists that differ in their text
TextBlockLists ==
    <<<<>>,
      <<Text(PyS(" "))>>,
      <<Text(None)>>,
      <<Text(PyS("alpha beta"))>>,
      <<Text(PyS("Alpha")), Text(PyS("BETA"))>>,
      <<Text(PyS("gamma delta"))>>,
      <<Text(PyS("a b c d"))>>,
      <<Text(PyS("a b c d e"))>>,
      <<Text(PyS("a b c d e f"))>>,
      <<Text(PyS("a b c d e f g h i j k l m n o p q r s"))>>,
      <<Text(PyS("a b c d e f g h i j k l m n o p q r s t"))>> >>

\* block lists that differ in their key-value blocks and tables
KvBlockLists ==
    <<<<>>,
      <<Kv(PyS("Invoice Number"), PyS("123"), None)>>,
      <<Kv(PyS("Invoice Number"), PyS("124"), None)>>,
      <<Kv(PyS("invoice number"), PyS(" 123"), None)>>,
      <<Kv(PyS("Invoice Number"), None, None)>>,
      <<Kv(PyS("Invoice Number"), PyInt(0), PyS("123"))>>,
      <<Kv(None, PyS("123"), None)>>,
      <<Kv(PyS("a"), PyS("1"), None), Kv(PyS("b"), PyS("2"), None)>>,
      <<Kv(PyS("A"), PyS("1"), None), Kv(PyS("a"), PyS("2"), None)>>,
      <<Table>>,
      <<Table, Table>> >>

Tree(document, parts, blocks) ==
    ExtractionResult(document, parts, blocks, Provenance("r1"))

\* The trees a caller compares are extractions of related documents: they
\* differ in their metadata, or in their structure, or in their text, or in
\* their key-value blocks and tables.  Each family is a list of trees.
MetadataTrees ==
    <<Tree(DocumentRoot("d1", Technicals[1], Embeddeds[1], None), <<>>, <<>>),
      Tree(DocumentRoot("d1", Technicals[2], Embeddeds[1], None), <<>>, <<>>),
      Tree(DocumentRoot("d1", Technicals[3], Embeddeds[1], None), <<>>, <<>>),
      Tree(DocumentRoot("d1", Technicals[1], Embeddeds[2], None), <<>>, <<>>),
      Tree(DocumentRoot("d1", Technicals[1], Embeddeds[3], None), <<>>, <<>>),
      Tree(DocumentRoot("d1", Technicals[1], Embeddeds[4], None), <<>>, <<>>),
      Tree(DocumentRoot("d1", Technicals[2], Embeddeds[2], None), <<>>, <<>>),
      Tree(DocumentRoot("d2", Technicals[1], Embeddeds[1], None), <<>>, <<>>)>>
StructureTrees ==
    [n \in 1..(Len(Contents) * (MaxParts + 1)) |->
        Tree(DocumentRoot("d1", BaseTechnical, None,
                          Contents[((n - 1) % Len(Contents)) + 1]),
             Parts((n - 1) \div Len(Contents)), <<>>)]
TextTrees ==
    [n \in 1..Len(TextBlockLists) |-> Tree(BaseDocument, <<>>, TextBlockLists[n])]
KvTrees ==
    [n \in 1..Len(KvBlockLists) |-> Tree(BaseDocument, <<>>, KvBlockLists[n])]
TreeFamilies == {MetadataTrees, StructureTrees, TextTrees, KvTrees}

RawRules == PyDict(<< <<"dates", PyBool(FALSE)>>, <<"currency", PyBool(FALSE)>> >>)

\* trees whose values differ in their date separators or in their currency
\* notation only, and two texts of similarity 5/6
OptionBlockLists ==
    <<<<Kv(PyS("date"), PyS("2020/01/02"), None)>>,
      <<Kv(PyS("date"), PyS("2020-01-02"), None)>>,
      <<Kv(PyS("total"), PyS("$1,000"), None)>>,
      <<Kv(PyS("total"), PyS("1000"), None)>>,
      <<Text(PyS("a b c d e"))>>,
      <<Text(PyS("a b c d e f"))>> >>
OptionTrees ==
    [n \in 1..Len(OptionBlockLists) |->
        Tree(BaseDocument, <<>>, OptionBlockLists[n])]

\* the normalization rules a caller passes, each option on its own
Rules(dates, currency) ==
    PyDict(<< <<"dates", PyBool(dates)>>, <<"currency", PyBool(currency)>> >>)
AllRules == {None, RawRules, Rules(FALSE, TRUE), Rules(TRUE, FALSE)}

\* the thresholds and document types a caller passes
Settings ==
    {[similarity_threshold |-> <<95, 100>>, document_type |-> None],
     [similarity_threshold |-> <<1, 2>>, document_type |-> None],
     [similarity_threshold |-> <<99, 100>>, document_type |-> None],
     [similarity_threshold |-> <<95, 100>>, document_type |-> PyS("invoice")]}

Options ==
    {[normalization_rules |-> nr, similarity_threshold |-> <<95, 100>>,
      document_type |-> None, report_id |-> PyS("rid")] : nr \in {None, RawRules}}

Severities == {"low", "medium", "high", "critical"}
\* the diff lists the status resolver is applied to on its own
DiffPool ==
    {DiffItem(k, "p", None, None, sv, "") :
        k \in {"added", "changed"}, sv \in Severities}

\* the values _normalize is applied to on its own: dates with each
\* separator, amounts with symbols and commas, texts that differ in case
\* and whitespace, and values that are no text
NormalizeValues ==
    {PyS("2020/01/02"), PyS("2020 01 02"), PyS("2020-01-02"), PyS("1/2/3"),
     PyS("1 2 3"), PyS(" Due 2020/1/2"), PyS("12345/01/02"), PyS("2020/123/1"),
     PyS("$1,000"), PyS("€ 1,000"), PyS("£5"), PyS("1,00"), PyS("1,0000"),
     PyS("1,000,000"), PyS("a,b"), PyS("$ 1,234.50"),
     PyS("  Hello   World "), PyS("hello world"), PyS("HELLO\tWORLD"),
     PyS(""), PyS("   "), PyDict(<< <<"K", PyS("V  w")>> >>),
     None, PyInt(0), PyInt(7), PyBool(TRUE), PyBool(FALSE)}

\* trees whose one key/value block differs in case and whitespace only, and
\* one with another value
CanonBlockLists ==
    <<<<Kv(PyS("name"), PyS("Hello World"), None)>>,
      <<Kv(PyS("name"), PyS("  hello   world "), None)>>,
      <<Kv(PyS("name"), PyS("hello there"), None)>> >>
CanonTrees ==
    [n \in 1..Len(CanonBlockLists) |->
        Tree(BaseDocument, <<>>, CanonBlockLists[n])]

\* the trees the comparison API is asked to compare: their reports have no
\* item, one content item, and items in every list
ApiTrees ==
    <<Tree(BaseDocument, <<>>, <<>>),
      Tree(BaseDocument, <<>>, <<Kv(PyS("total"), PyS("1,5 \"net\""), None)>>),
      Tree(DocumentRoot("d1", Technicals[2], None, Contents[3]), <<>>,
           <<Table>>)>>
\* the job identifiers a client asks for: those drawn, and one never drawn
JobIds == {"uuid-" \o ToString(n) : n \in 1..MaxJobs} \cup {"uuid-0"}

\* trees of different extraction runs, and the report ids a caller passes
IdentityTrees ==
    <<ExtractionResult(BaseDocument, <<>>, <<>>, Provenance("r1")),
      ExtractionResult(BaseDocument, <<>>, <<>>, Provenance("r2")),
      ExtractionResult(DocumentRoot("d2", BaseTechnical, None, None), <<>>, <<>>,
                       Provenance("r3"))>>
ReportIds == {None, PyS(""), PyS("rid")}

\* trees that differ in everything at once: the report of the first and the
\* second has more than 10 items
DigestTrees ==
    <<Tree(BaseDocument, <<>>, <<>>),
      Tree(DocumentRoot("d2", Technicals[2], Embeddeds[2], Contents[3]),
           Parts(MaxParts),
           <<Text(PyS("alpha beta")), Kv(PyS("a"), PyS("1"), None),
             Kv(PyS("b"), PyS("2"), None), Table>>),
      Tree(DocumentRoot("d1", Technicals[2], None, Contents[4]), <<>>,
           <<Kv(PyS("a"), PyS("1"), None)>>)>>

\* the diff lists the summary and the narrative are applied to on their own:
\* items of every kind and severity, in lists of up to 10 + MaxDiffs items
DigestPool ==
    <<DiffItem("added", "p1", None, None, "low", ""),
      DiffItem("removed", "p2", None, None, "medium", ""),
      DiffItem("changed", "p3", None, None, "high", ""),
      DiffItem("conflict", "p4", None, None, "critical", ""),
      DiffItem("changed", "p5", None, None, "low", ""),
      DiffItem("added", "p6", None, None, "high", ""),
      DiffItem("removed", "p7", None, None, "critical", ""),
      DiffItem("conflict", "p8", None, None, "medium", "")>>
DigestLists ==
    {[n \in 1..len |-> DigestPool[((n + k - 2) % Len(DigestPool)) + 1]] :
        k \in 1..Len(DigestPool), len \in 0..(10 + MaxDiffs)}

RECURSIVE SeqsUpTo(_, _)
SeqsUpTo(S, n) ==
    IF n = 0 THEN {<<>>}
    ELSE LET shorter == SeqsUpTo(S, n - 1)
         IN  shorter \cup {Append(q, x) : q \in shorter, x \in S}

\* the response to no request
NoResponse ==
    [endpoint |-> "", job_id |-> "", code |-> 0, status |-> "",
     error |-> None, detail |-> "", report |-> <<>>, csv |-> ""]

\* the comparison API has not been asked for anything
NoService ==
    /\ _compare_jobs = <<>>
    /\ db = <<>>
    /\ current = ""
    /\ awaiting = {}
    /\ uuids = 0
    /\ response = NoResponse

\* _normalize has not been invoked on its own
NoNormalize ==
    /\ normalize_args = [value |-> None, normalize_dates |-> TRUE,
                         normalize_currency |-> TRUE]
    /\ normalized = <<>>

(***************************************************************************)
(* The caller: it invokes compare on its two trees, in either order, and   *)
(* the service process may be restarted between two invocations.           *)
(***************************************************************************)
Call(l, r, n) ==
    compare(l, r, options.normalization_rules, options.similarity_threshold,
            options.document_type, options.report_id,
            PyS("uuid-" \o ToString(n)), PyInt(n))

\* the two trees are any two of a family; the caller passes them in either
\* order (Compare, CompareSwapped), so each pair is drawn once; the first
\* process has the seed 0, a restarted one any other seed
Init ==
    /\ \E family \in TreeFamilies :
          \E i, j \in 1..Len(family) :
              i <= j /\ left = family[i] /\ right = family[j]
    /\ options \in Options
    /\ hashseed = 0
    /\ reports = <<>>
    /\ diff_list = <<>>
    /\ status_out = "unset"
    /\ summary_out = <<>>
    /\ narrative_out = <<>>
    /\ tasks = <<>>
    /\ NoNormalize
    /\ NoService

Compare ==
    /\ Len(reports) < MaxCalls
    /\ reports' = Append(reports, [swapped |-> FALSE, options |-> options,
                                   report |-> Call(left, right, Len(reports))])
    /\ UNCHANGED <<left, right, options, hashseed, diff_list, status_out,
                   summary_out, narrative_out, tasks,
                   normvars, apivars>>

CompareSwapped ==
    /\ Len(reports) < MaxCalls
    /\ reports' = Append(reports, [swapped |-> TRUE, options |-> options,
                                   report |-> Call(right, left, Len(reports))])
    /\ UNCHANGED <<left, right, options, hashseed, diff_list, status_out,
                   summary_out, narrative_out, tasks,
                   normvars, apivars>>

\* a new interpreter process draws a new seed
Restart ==
    /\ reports # <<>>
    /\ \E seed \in (0..MaxSeed) \ {hashseed} : hashseed' = seed
    /\ UNCHANGED <<left, right, options, reports, diff_list, status_out,
                   summary_out, narrative_out, tasks,
                   normvars, apivars>>

Next == Compare \/ CompareSwapped \/ Restart

Spec == Init /\ [][Next]_vars

(***************************************************************************)
(* The status resolver on its own, over diff lists of every severity.      *)
(***************************************************************************)
InitDiffList ==
    /\ left = Tree(BaseDocument, <<>>, <<>>)
    /\ right = Tree(BaseDocument, <<>>, <<>>)
    /\ options \in Options
    /\ hashseed = 0
    /\ reports = <<>>
    /\ diff_list \in SeqsUpTo(DiffPool, MaxDiffs)
    /\ status_out = "unset"
    /\ summary_out = <<>>
    /\ narrative_out = <<>>
    /\ tasks = <<>>
    /\ NoNormalize
    /\ NoService

ComputeStatus ==
    /\ status_out = "unset"
    /\ status_out' = _compute_status(diff_list, options.similarity_threshold)
    /\ UNCHANGED <<left, right, options, hashseed, reports, diff_list,
                   summary_out, narrative_out, tasks,
                   normvars, apivars>>

NextDiffList == ComputeStatus

SpecDiffList == InitDiffList /\ [][NextDiffList]_vars

(***************************************************************************)
(* The severity summary and the narrative, on their own over diff lists of *)
(* every kind, severity and length, and in the reports of compare.         *)
(***************************************************************************)
InitDigest ==
    /\ \/ /\ \E i, j \in 1..Len(DigestTrees) :
                left = DigestTrees[i] /\ right = DigestTrees[j]
          /\ diff_list = <<>>
       \/ /\ left = DigestTrees[1]
          /\ right = DigestTrees[1]
          /\ diff_list \in DigestLists
    /\ options \in Options
    /\ hashseed \in 0..MaxSeed
    /\ reports = <<>>
    /\ status_out = "unset"
    /\ summary_out = <<>>
    /\ narrative_out = <<>>
    /\ tasks = <<>>
    /\ NoNormalize
    /\ NoService

Summarize ==
    /\ summary_out = <<>>
    /\ summary_out' = <<_severity_summary(diff_list)>>
    /\ UNCHANGED <<left, right, options, hashseed, reports, diff_list,
                   status_out, narrative_out, tasks,
                   normvars, apivars>>

Narrate ==
    /\ narrative_out = <<>>
    /\ narrative_out' = <<_narrative(diff_list)>>
    /\ UNCHANGED <<left, right, options, hashseed, reports, diff_list,
                   status_out, summary_out, tasks,
                   normvars, apivars>>

NextDigest == Compare \/ Summarize \/ Narrate

SpecDigest == InitDigest /\ [][NextDigest]_vars

(***************************************************************************)
(* A caller that compares trees of different extraction runs, with and     *)
(* without a report id.                                                    *)
(***************************************************************************)
InitIdentity ==
    /\ \E i, j \in 1..Len(IdentityTrees) :
          left = IdentityTrees[i] /\ right = IdentityTrees[j]
    /\ \E o \in Options, id \in ReportIds :
          options = [o EXCEPT !.report_id = id]
    /\ hashseed = 0
    /\ reports = <<>>
    /\ diff_list = <<>>
    /\ status_out = "unset"
    /\ summary_out = <<>>
    /\ narrative_out = <<>>
    /\ tasks = <<>>
    /\ NoNormalize
    /\ NoService

NextIdentity == Compare \/ CompareSwapped

SpecIdentity == InitIdentity /\ [][NextIdentity]_vars

(***************************************************************************)
(* _normalize applied to a value on its own, and compare applied to trees  *)
(* whose values differ in case and whitespace.                             *)
(***************************************************************************)
InitNormalize ==
    /\ \E i, j \in 1..Len(CanonTrees) :
          i <= j /\ left = CanonTrees[i] /\ right = CanonTrees[j]
    /\ \E nr \in AllRules :
          options = [normalization_rules |-> nr,
                     similarity_threshold |-> <<95, 100>>,
                     document_type |-> None, report_id |-> PyS("rid")]
    /\ hashseed = 0
    /\ reports = <<>>
    /\ diff_list = <<>>
    /\ status_out = "unset"
    /\ summary_out = <<>>
    /\ narrative_out = <<>>
    /\ tasks = <<>>
    /\ normalize_args \in [value : NormalizeValues,
                            normalize_dates : BOOLEAN,
                            normalize_currency : BOOLEAN]
    /\ normalized = <<>>
    /\ NoService

NormalizeCall ==
    /\ normalized = <<>>
    /\ normalized' = <<_normalize(normalize_args.value,
                                  normalize_args.normalize_dates,
                                  normalize_args.normalize_currency)>>
    /\ UNCHANGED <<left, right, options, hashseed, reports, diff_list,
                   status_out, summary_out, narrative_out, tasks,
                   normalize_args, apivars>>

NextNormalize == NormalizeCall \/ Compare

SpecNormalize == InitNormalize /\ [][NextNormalize]_vars

(***************************************************************************)
(* A caller that passes each normalization option on its own and changes   *)
(* the similarity threshold and the document type between two invocations  *)
(* in one process.                                                         *)
(***************************************************************************)
InitOptions ==
    /\ \E i, j \in 1..Len(OptionTrees) :
          i <= j /\ left = OptionTrees[i] /\ right = OptionTrees[j]
    /\ \E nr \in AllRules :
          options = [normalization_rules |-> nr,
                     similarity_threshold |-> <<95, 100>>,
                     document_type |-> None, report_id |-> PyS("rid")]
    /\ hashseed = 0
    /\ reports = <<>>
    /\ diff_list = <<>>
    /\ status_out = "unset"
    /\ summary_out = <<>>
    /\ narrative_out = <<>>
    /\ tasks = <<>>
    /\ NoNormalize
    /\ NoService

Reconfigure ==
    /\ \E s \in Settings :
          /\ s.similarity_threshold # options.similarity_threshold
                \/ s.document_type # options.document_type
          /\ options' = [options EXCEPT
                            !.similarity_threshold = s.similarity_threshold,
                            !.document_type = s.document_type]
    /\ UNCHANGED <<left, right, hashseed, reports, diff_list, status_out,
                   summary_out, narrative_out, tasks,
                   normvars, apivars>>

NextOptions == Compare \/ Reconfigure

SpecOptions == InitOptions /\ [][NextOptions]_vars

(***************************************************************************)
(* Invocations of compare that run concurrently in one process, on the     *)
(* two trees in either order.  An invocation runs its three differs one    *)
(* after the other, each into a list of its own, and then builds its       *)
(* report; the steps of different invocations interleave in any order.     *)
(***************************************************************************)
Idle ==
    [pc |-> "idle", swapped |-> FALSE, metadata_diffs |-> <<>>,
     structure_diffs |-> <<>>, content_diffs |-> <<>>, report |-> <<>>]

TaskLeft(t) == IF tasks[t].swapped THEN right ELSE left
TaskRight(t) == IF tasks[t].swapped THEN left ELSE right

\* a diff list that also holds the items of the next invocation, as a list
\* shared by the invocations would
SharedList(ts, t, name) == ts[t][name] \o ts[(t % Len(ts)) + 1][name]

\* `diffs: list[DiffItem] = []`: the diff list `name` of invocation t
OwnList(ts, t, name) == ts[t][name]

InitConcurrent ==
    /\ \E i, j \in {1, Len(DigestTrees)} :
          i <= j /\ left = DigestTrees[i] /\ right = DigestTrees[j]
    /\ options \in Options
    /\ hashseed \in 0..MaxSeed
    /\ reports = <<>>
    /\ diff_list = <<>>
    /\ status_out = "unset"
    /\ summary_out = <<>>
    /\ narrative_out = <<>>
    /\ tasks = [t \in 1..MaxTasks |-> Idle]
    /\ NoNormalize
    /\ NoService

Begin(t) ==
    /\ tasks[t].pc = "idle"
    /\ \E swapped \in BOOLEAN :
          tasks' = [tasks EXCEPT ![t].pc = "metadata", ![t].swapped = swapped]
    /\ UNCHANGED <<left, right, options, hashseed, reports, diff_list,
                   status_out, summary_out, narrative_out,
                   normvars, apivars>>

RunMetadata(t) ==
    /\ tasks[t].pc = "metadata"
    /\ tasks' = [tasks EXCEPT
                    ![t].pc = "structure",
                    ![t].metadata_diffs =
                        _metadata_diffs(
                            TaskLeft(t), TaskRight(t),
                            Normalize(PyOr(options.normalization_rules,
                                           Rules(TRUE, TRUE))))]
    /\ UNCHANGED <<left, right, options, hashseed, reports, diff_list,
                   status_out, summary_out, narrative_out,
                   normvars, apivars>>

RunStructure(t) ==
    /\ tasks[t].pc = "structure"
    /\ tasks' = [tasks EXCEPT
                    ![t].pc = "content",
                    ![t].structure_diffs =
                        _structure_diffs(TaskLeft(t), TaskRight(t))]
    /\ UNCHANGED <<left, right, options, hashseed, reports, diff_list,
                   status_out, summary_out, narrative_out,
                   normvars, apivars>>

RunContent(t) ==
    /\ tasks[t].pc = "content"
    /\ tasks' = [tasks EXCEPT
                    ![t].pc = "report",
                    ![t].content_diffs =
                        _content_diffs(
                            TaskLeft(t), TaskRight(t),
                            Normalize(PyOr(options.normalization_rules,
                                           Rules(TRUE, TRUE))))]
    /\ UNCHANGED <<left, right, options, hashseed, reports, diff_list,
                   status_out, summary_out, narrative_out,
                   normvars, apivars>>

Return(t) ==
    /\ tasks[t].pc = "report"
    /\ tasks' = [tasks EXCEPT
                    ![t].pc = "done",
                    ![t].report =
                        <<Assemble(TaskLeft(t), TaskRight(t),
                                   options.similarity_threshold,
                                   options.report_id,
                                   PyS("uuid-" \o ToString(t)), PyInt(t),
                                   OwnList(tasks, t, "metadata_diffs"),
                                   OwnList(tasks, t, "structure_diffs"),
                                   OwnList(tasks, t, "content_diffs"))>>]
    /\ UNCHANGED <<left, right, options, hashseed, reports, diff_list,
                   status_out, summary_out, narrative_out,
                   normvars, apivars>>

NextConcurrent ==
    \/ \E t \in 1..MaxTasks : Begin(t)
    \/ \E t \in 1..MaxTasks : RunMetadata(t)
    \/ \E t \in 1..MaxTasks : RunStructure(t)
    \/ \E t \in 1..MaxTasks : RunContent(t)
    \/ \E t \in 1..MaxTasks : Return(t)

SpecConcurrent == InitConcurrent /\ [][NextConcurrent]_vars

(***************************************************************************)
(* The comparison API (rpd/api/comparison.py) and the persistence of       *)
(* reports (rpd/db_service.py).  The handlers are coroutines on one event  *)
(* loop: a handler runs alone from one await to the next, and other        *)
(* handlers run while it waits for the database.                           *)
(***************************************************************************)
\* obj.name raises AttributeError when the model of obj has no field name
HasAttr(obj, name) == name \in DOMAIN obj

\* the row of the diff item d of a section; `d.diff_type or ""`, `d.path or
\* ""` and `d.severity or ""` are the strings themselves
Row(section, d) ==
    [section |-> section,
     diff_type |-> d.diff_type,
     path |-> d.path,
     severity |-> d.severity,
     left_value |-> IF ~IsNone(d.left_value) THEN PyStr(d.left_value) ELSE "",
     right_value |-> IF ~IsNone(d.right_value) THEN PyStr(d.right_value) ELSE "",
     confidence |-> IF ~IsNone(d.confidence) THEN PyStr(d.confidence) ELSE ""]

\* the diff items of the three sections in the order of the sections dict,
\* each with the name of its section
SectionItems(report) ==
    [n \in 1..Len(report.metadata_diffs) |-> <<"metadata", report.metadata_diffs[n]>>]
    \o [n \in 1..Len(report.structure_diffs) |-> <<"structure", report.structure_diffs[n]>>]
    \o [n \in 1..Len(report.content_diffs) |-> <<"content", report.content_diffs[n]>>]

\* the rows of the items, or the exception that building a row raises
RowsOf(items) ==
    IF \E n \in 1..Len(items) : ~HasAttr(items[n][2], "confidence")
    THEN [raised |-> "AttributeError", rows |-> <<>>]
    ELSE [raised |-> "", rows |-> [n \in 1..Len(items) |-> Row(items[n][1], items[n][2])]]

_report_to_rows(report) == RowsOf(SectionItems(report))

CsvHeader == "section,diff_type,path,severity,left_value,right_value,confidence\r\n"

\* a field as csv.writer writes it: quoted, its quotes doubled, when it holds
\* a delimiter, a quote or a line break
CsvField(s) ==
    IF \E i \in 1..Len(s) : CharAt(s, i) \in {",", "\"", "\r", "\n"}
    THEN "\"" \o Rewrite(s, [i \in {j \in 1..Len(s) : CharAt(s, j) = "\""} |-> "\"\""])
         \o "\""
    ELSE s

CsvLine(row) ==
    Join(",", <<CsvField(row.section), CsvField(row.diff_type),
                CsvField(row.path), CsvField(row.severity),
                CsvField(row.left_value), CsvField(row.right_value),
                CsvField(row.confidence)>>) \o "\r\n"

_rows_to_csv(rows) ==
    IF rows = <<>> THEN CsvHeader
    ELSE CsvHeader \o Concat([n \in 1..Len(rows) |-> CsvLine(rows[n])])

\* what load_comparison_report rebuilds from the rows of a persisted report:
\* the provenance of the two trees is not stored
load_comparison_report(rows, report_id) ==
    IF report_id \in DOMAIN rows
    THEN [rows[report_id] EXCEPT !.left_provenance = None,
                                 !.right_provenance = None]
    ELSE None

\* `if report`: a report, which is a record without a type tag, and not None
IsReport(x) == "t" \notin DOMAIN x

\* d[k] = v
Store(d, k, v) == [x \in (DOMAIN d) \cup {k} |-> IF x = k THEN v ELSE d[x]]

\* compare_async up to its entry in the job store: the request carries the
\* two trees and the options of the state
Submit ==
    /\ current = ""
    /\ uuids < MaxJobs
    /\ uuids' = uuids + 1
    /\ current' = "uuid-" \o ToString(uuids + 1)
    /\ _compare_jobs' = Store(_compare_jobs, "uuid-" \o ToString(uuids + 1),
                              [status |-> "running", report |-> None,
                               error |-> None])
    /\ UNCHANGED <<left, right, options, hashseed, reports, diff_list,
                   status_out, summary_out, narrative_out, tasks, normvars,
                   db, awaiting, response>>

\* compare_async from compare to its await of persist_comparison_report;
\* compare does not raise on two document trees
Run ==
    /\ current # ""
    /\ _compare_jobs' =
          [_compare_jobs EXCEPT
              ![current] = [status |-> "completed",
                            report |-> compare(left, right,
                                               options.normalization_rules,
                                               options.similarity_threshold,
                                               options.document_type,
                                               PyS(current), PyS("unused"),
                                               PyInt(uuids)),
                            error |-> None]]
    /\ awaiting' = awaiting \cup {current}
    /\ current' = ""
    /\ UNCHANGED <<left, right, options, hashseed, reports, diff_list,
                   status_out, summary_out, narrative_out, tasks, normvars,
                   db, uuids, response>>

\* persist_comparison_report returns: the report is in the database
PersistReturns(job_id) ==
    /\ current = ""
    /\ job_id \in awaiting
    /\ db' = Store(db, job_id, _compare_jobs[job_id].report)
    /\ awaiting' = awaiting \ {job_id}
    /\ UNCHANGED <<left, right, options, hashseed, reports, diff_list,
                   status_out, summary_out, narrative_out, tasks, normvars,
                   _compare_jobs, current, uuids, response>>

\* persist_comparison_report raises, the database being unavailable: the
\* except clause of compare_async runs
PersistRaises(job_id) ==
    /\ current = ""
    /\ job_id \in awaiting
    /\ _compare_jobs' = [_compare_jobs EXCEPT
                            ![job_id].status = "failed",
                            ![job_id].error = PyS("database is unavailable")]
    /\ awaiting' = awaiting \ {job_id}
    /\ UNCHANGED <<left, right, options, hashseed, reports, diff_list,
                   status_out, summary_out, narrative_out, tasks, normvars,
                   db, current, uuids, response>>

\* the response of get_compare_job
JobResponse(job_id) ==
    IF job_id \notin DOMAIN _compare_jobs
    THEN [NoResponse EXCEPT !.endpoint = "job", !.job_id = job_id,
                            !.code = 404, !.detail = "Job not found"]
    ELSE [NoResponse EXCEPT !.endpoint = "job", !.job_id = job_id,
                            !.code = 200,
                            !.status = _compare_jobs[job_id].status,
                            !.error = _compare_jobs[job_id].error]

\* the report the two report endpoints find for a job, or the response that
\* says why there is none
FindReport(endpoint, job_id) ==
    IF job_id \in DOMAIN _compare_jobs
    THEN IF _compare_jobs[job_id].status # "completed"
         THEN [NoResponse EXCEPT
                  !.endpoint = endpoint, !.job_id = job_id, !.code = 202,
                  !.detail = "Job not completed: " \o _compare_jobs[job_id].status]
         ELSE IF Truthy(_compare_jobs[job_id].error)
         THEN [NoResponse EXCEPT
                  !.endpoint = endpoint, !.job_id = job_id, !.code = 500,
                  !.detail = PyStr(_compare_jobs[job_id].error)]
         ELSE [NoResponse EXCEPT
                  !.endpoint = endpoint, !.job_id = job_id, !.code = 200,
                  !.report = <<_compare_jobs[job_id].report>>]
    ELSE IF IsReport(load_comparison_report(db, job_id))
    THEN [NoResponse EXCEPT
             !.endpoint = endpoint, !.job_id = job_id, !.code = 200,
             !.report = <<load_comparison_report(db, job_id)>>]
    ELSE [NoResponse EXCEPT !.endpoint = endpoint, !.job_id = job_id,
                            !.code = 404, !.detail = "Job not found"]

\* the response of get_compare_report_csv for the report found: the CSV
\* text, or the server error of an exception that nothing handles
CsvResponse(found, flat) ==
    IF found.code # 200 THEN found
    ELSE IF flat.raised # ""
    THEN [found EXCEPT !.code = 500, !.detail = flat.raised, !.report = <<>>]
    ELSE [found EXCEPT !.report = <<>>, !.csv = _rows_to_csv(flat.rows)]

CsvOf(found) ==
    CsvResponse(found, IF found.code = 200 THEN _report_to_rows(found.report[1])
                       ELSE [raised |-> "", rows |-> <<>>])

GetCompareJob(job_id) ==
    /\ current = ""
    /\ response' = JobResponse(job_id)
    /\ UNCHANGED <<left, right, options, hashseed, reports, diff_list,
                   status_out, summary_out, narrative_out, tasks, normvars,
                   _compare_jobs, db, current, awaiting, uuids>>

GetCompareReport(job_id) ==
    /\ current = ""
    /\ response' = FindReport("report", job_id)
    /\ UNCHANGED <<left, right, options, hashseed, reports, diff_list,
                   status_out, summary_out, narrative_out, tasks, normvars,
                   _compare_jobs, db, current, awaiting, uuids>>

GetCompareReportCsv(job_id) ==
    /\ current = ""
    /\ response' = CsvOf(FindReport("report.csv", job_id))
    /\ UNCHANGED <<left, right, options, hashseed, reports, diff_list,
                   status_out, summary_out, narrative_out, tasks, normvars,
                   _compare_jobs, db, current, awaiting, uuids>>

\* the service process is restarted: the job store is in its memory, the
\* database is not; a handler that waits for the database is lost
ServiceRestart ==
    /\ current = ""
    /\ _compare_jobs # <<>>
    /\ _compare_jobs' = <<>>
    /\ awaiting' = {}
    /\ response' = NoResponse
    /\ UNCHANGED <<left, right, options, hashseed, reports, diff_list,
                   status_out, summary_out, narrative_out, tasks, normvars,
                   db, current, uuids>>

InitApi ==
    /\ \E i, j \in 1..Len(ApiTrees) :
          i <= j /\ left = ApiTrees[i] /\ right = ApiTrees[j]
    /\ options \in Options
    /\ hashseed = 0
    /\ reports = <<>>
    /\ diff_list = <<>>
    /\ status_out = "unset"
    /\ summary_out = <<>>
    /\ narrative_out = <<>>
    /\ tasks = <<>>
    /\ NoNormalize
    /\ NoService

NextApi ==
    \/ Submit
    \/ Run
    \/ \E job_id \in JobIds : PersistReturns(job_id)
    \/ \E job_id \in JobIds : PersistRaises(job_id)
    \/ \E job_id \in JobIds : GetCompareJob(job_id)
    \/ \E job_id \in JobIds : GetCompareReport(job_id)
    \/ \E job_id \in JobIds : GetCompareReportCsv(job_id)
    \/ ServiceRestart

SpecApi == InitApi /\ [][NextApi]_vars

(***************************************************************************)
(* What the properties below read from a state.                            *)
(***************************************************************************)
\* the report of the n-th invocation, and the trees it was given
ReportOf(n) == reports[n].report
LeftOf(n) == IF reports[n].swapped THEN right ELSE left
RightOf(n) == IF reports[n].swapped THEN left ELSE right
Calls == 1..Len(reports)
\* the call that has returned last: every call is the latest one in the
\* state it returns to
LatestCall == {Len(reports)} \ {0}

AllDiffs(rep) == rep.metadata_diffs \o rep.structure_diffs \o rep.content_diffs
ItemsAt(diffs, path) == SelectSeq(diffs, LAMBDA d : d.path = path)
Paths(diffs) == {diffs[n].path : n \in 1..Len(diffs)}
\* whether the options of the state enable normalization
NormalizationEnabled ==
    Normalize(PyOr(options.normalization_rules,
                   PyDict(<< <<"dates", PyBool(TRUE)>>,
                             <<"currency", PyBool(TRUE)>> >>)))
\* v as the differs compare it
Compared(v) == IF NormalizationEnabled THEN _normalize(v, TRUE, TRUE) ELSE v

(***************************************************************************)
(* C1  Reflexivity: comparing a tree with itself gives status 'match',     *)
(* empty metadata, structure, content and query-answer diff lists and a    *)
(* document-level similarity of 1.0.                                       *)
(***************************************************************************)
Reflexivity ==
    \A n \in Calls :
        left = right =>
            /\ ReportOf(n).status = "match"
            /\ ReportOf(n).metadata_diffs = <<>>
            /\ ReportOf(n).structure_diffs = <<>>
            /\ ReportOf(n).content_diffs = <<>>
            /\ ReportOf(n).query_answer_diffs = <<>>
            /\ ReportOf(n).similarity_scores.document_level = <<1, 1>>

(***************************************************************************)
(* C2  Anti-symmetry of classification: compare(A, B) and compare(B, A)    *)
(* give as many items over the same paths; an 'added' item of one is a     *)
(* 'removed' item of the other at the same path, its value moved to the    *)
(* other side, and a 'changed' item is in both with its values swapped.    *)
(***************************************************************************)
Flip(diff_type) ==
    CASE diff_type = "added" -> "removed"
      [] diff_type = "removed" -> "added"
      [] OTHER -> diff_type
Mirrored(d, e) ==
    /\ e.path = d.path
    /\ e.diff_type = Flip(d.diff_type)
    /\ e.left_value = d.right_value
    /\ e.right_value = d.left_value
MirroredIn(a, b) ==
    \A m \in 1..Len(a) : \E k \in 1..Len(b) : Mirrored(a[m], b[k])

AntiSymmetry ==
    \A i, j \in Calls :
        (~reports[i].swapped /\ reports[j].swapped) =>
            /\ Len(AllDiffs(ReportOf(i))) = Len(AllDiffs(ReportOf(j)))
            /\ Paths(AllDiffs(ReportOf(i))) = Paths(AllDiffs(ReportOf(j)))
            /\ MirroredIn(AllDiffs(ReportOf(i)), AllDiffs(ReportOf(j)))
            /\ MirroredIn(AllDiffs(ReportOf(j)), AllDiffs(ReportOf(i)))

(***************************************************************************)
(* C3  Determinism: two invocations on the same trees with the same        *)
(* options and report id return the same report, the same items in the     *)
(* same order, but for created_at.                                         *)
(***************************************************************************)
Untimed(rep) == [rep EXCEPT !.created_at = None]

Determinism ==
    \A i, j \in Calls :
        reports[i].swapped = reports[j].swapped =>
            Untimed(ReportOf(i)) = Untimed(ReportOf(j))

(***************************************************************************)
(* C4  Hash scenario: when the trees differ in hash_sha256 only, "aaa" on  *)
(* the left and "bbb" on the right, and have no blocks, the report holds   *)
(* one item in all, 'changed' of severity 'high' at                        *)
(* 'document.technical_metadata.hash_sha256', its status is                *)
(* 'partial_match' and its narrative names that change alone.              *)
(***************************************************************************)
IsHashScenario(l, r) ==
    /\ l.document.technical_metadata.hash_sha256 = PyS("aaa")
    /\ r.document.technical_metadata.hash_sha256 = PyS("bbb")
    /\ l = [r EXCEPT !.document.technical_metadata.hash_sha256 = PyS("aaa")]
    /\ l.blocks = <<>>

HashScenario ==
    \A n \in Calls :
        IsHashScenario(LeftOf(n), RightOf(n)) =>
            /\ Len(AllDiffs(ReportOf(n))) = 1
            /\ AllDiffs(ReportOf(n))[1].path
                  = "document.technical_metadata.hash_sha256"
            /\ AllDiffs(ReportOf(n))[1].diff_type = "changed"
            /\ AllDiffs(ReportOf(n))[1].severity = "high"
            /\ ReportOf(n).status = "partial_match"
            /\ ReportOf(n).narrative_summary
                  = "Changed: document.technical_metadata.hash_sha256"

(***************************************************************************)
(* C5  Severity escalation: a 'changed' metadata item is 'high' exactly    *)
(* when its path holds 'creator', 'producer', 'modified' or 'hash' in any  *)
(* case, and 'medium' otherwise; a change of the embedded producer is      *)
(* reported at 'embedded_metadata.producer' as 'high', a change of the     *)
(* embedded subject at 'embedded_metadata.subject' as 'medium'.            *)
(***************************************************************************)
Escalates(path) ==
    \/ Contains(lower(path), "creator") \/ Contains(lower(path), "producer")
    \/ Contains(lower(path), "modified") \/ Contains(lower(path), "hash")

\* both sides have embedded metadata and the trees differ in its field only
DifferOnlyInEmbedded(l, r, field) ==
    /\ ~IsNone(l.document.embedded_metadata)
    /\ ~IsNone(r.document.embedded_metadata)
    /\ l.document.embedded_metadata[field] # r.document.embedded_metadata[field]
    /\ l = [r EXCEPT !.document.embedded_metadata[field]
                        = l.document.embedded_metadata[field]]

HasChanged(diffs, path, severity) ==
    \E m \in 1..Len(diffs) :
        /\ diffs[m].path = path
        /\ diffs[m].diff_type = "changed"
        /\ diffs[m].severity = severity

SeverityEscalation ==
    \A n \in Calls :
        /\ \A m \in 1..Len(ReportOf(n).metadata_diffs) :
              ReportOf(n).metadata_diffs[m].diff_type = "changed" =>
                 ReportOf(n).metadata_diffs[m].severity
                    = IF Escalates(ReportOf(n).metadata_diffs[m].path)
                      THEN "high" ELSE "medium"
        /\ DifferOnlyInEmbedded(LeftOf(n), RightOf(n), "producer") =>
              HasChanged(ReportOf(n).metadata_diffs,
                         "embedded_metadata.producer", "high")
        /\ DifferOnlyInEmbedded(LeftOf(n), RightOf(n), "subject") =>
              HasChanged(ReportOf(n).metadata_diffs,
                         "embedded_metadata.subject", "medium")

(***************************************************************************)
(* C6  Status resolution: the status of a diff list is 'conflict' when an  *)
(* item is 'critical', else 'partial_match' when an item is 'high' or      *)
(* 'medium', else 'match'.                                                 *)
(***************************************************************************)
HasSeverity(diffs, severity) ==
    \E n \in 1..Len(diffs) : diffs[n].severity = severity

StatusResolution ==
    status_out # "unset" =>
        status_out =
            IF HasSeverity(diff_list, "critical") THEN "conflict"
            ELSE IF HasSeverity(diff_list, "high")
                    \/ HasSeverity(diff_list, "medium") THEN "partial_match"
            ELSE "match"

\* three 'high' items and nothing else have resolved to 'partial_match'
StatusResolutionWitness ==
    /\ Len(diff_list) = 3
    /\ \A n \in 1..Len(diff_list) : diff_list[n].severity = "high"
    /\ status_out = "partial_match"

(***************************************************************************)
(* C7  Text diff emission: the content differ emits one 'changed' item at  *)
(* 'blocks.text' exactly when the text similarity is below 0.95, 'high'    *)
(* when the similarity is at most 0.8 and 'medium' above; "alpha beta"     *)
(* against "gamma delta" has similarity 0.0 and gives a 'high' item.       *)
(***************************************************************************)
SimilarityOf(n) ==
    _text_similarity(DocumentText(LeftOf(n).blocks),
                     DocumentText(RightOf(n).blocks))
TextItems(n) == ItemsAt(ReportOf(n).content_diffs, "blocks.text")

\* items are the 'blocks.text' items due for the similarity sim
TextDiffEmitted(items, sim) ==
    /\ Len(items) = IF 100 * sim[1] < 95 * sim[2] THEN 1 ELSE 0
    /\ \A m \in 1..Len(items) :
          /\ items[m].diff_type = "changed"
          /\ items[m].severity
                = IF 10 * sim[1] <= 8 * sim[2] THEN "high" ELSE "medium"

TextDiffEmission ==
    \A n \in LatestCall :
        /\ TextDiffEmitted(TextItems(n), SimilarityOf(n))
        /\ (/\ DocumentText(LeftOf(n).blocks) = "alpha beta"
            /\ DocumentText(RightOf(n).blocks) = "gamma delta") =>
              /\ ReportOf(n).similarity_scores.document_level = <<0, 1>>
              /\ Len(TextItems(n)) = 1
              /\ TextItems(n)[1].severity = "high"

\* a similarity between 0.8 and 0.95 has given a 'medium' item
TextDiffEmissionWitness ==
    \E n \in Calls :
        /\ 10 * SimilarityOf(n)[1] > 8 * SimilarityOf(n)[2]
        /\ 100 * SimilarityOf(n)[1] < 95 * SimilarityOf(n)[2]
        /\ Len(TextItems(n)) = 1
        /\ TextItems(n)[1].severity = "medium"

(***************************************************************************)
(* C8  Key/value alignment: for every lower-cased key of a key-value block *)
(* of either side, a key of the right side only gives one 'added' item of  *)
(* severity 'medium' with the right value, a key of the left side only one *)
(* 'removed' item of severity 'medium' with the left value, a key of both  *)
(* sides one 'changed' item of severity 'high' with both values when the   *)
(* compared values differ and no item otherwise; the path is 'kv.<key>'.   *)
(***************************************************************************)
IsKv(b) == b.block_type = "kv" /\ Truthy(b.key)
KvKeyOf(b) == lower(PyStr(b.key))
KvKeys(blocks) ==
    {KvKeyOf(blocks[n]) : n \in {m \in 1..Len(blocks) : IsKv(blocks[m])}}
\* the value of the last block of the key
KvValue(blocks, k) ==
    LET of_key == SelectSeq(blocks, LAMBDA b : IsKv(b) /\ KvKeyOf(b) = k)
    IN  PyOr(of_key[Len(of_key)].value, of_key[Len(of_key)].content)

KvExpected(l, r, k) ==
    IF k \notin KvKeys(l.blocks)
    THEN <<DiffItem("added", "kv." \o k, None, KvValue(r.blocks, k),
                    "medium", "")>>
    ELSE IF k \notin KvKeys(r.blocks)
    THEN <<DiffItem("removed", "kv." \o k, KvValue(l.blocks, k), None,
                    "medium", "")>>
    ELSE IF ~PyEq(Compared(KvValue(l.blocks, k)), Compared(KvValue(r.blocks, k)))
    THEN <<DiffItem("changed", "kv." \o k, KvValue(l.blocks, k),
                    KvValue(r.blocks, k), "high", "")>>
    ELSE <<>>

KvAlignment ==
    \A n \in Calls :
        \A k \in KvKeys(LeftOf(n).blocks) \cup KvKeys(RightOf(n).blocks) :
            ItemsAt(ReportOf(n).content_diffs, "kv." \o k)
                = KvExpected(LeftOf(n), RightOf(n), k)

(***************************************************************************)
(* C9  Metadata classification: for every path of the two flat mappings,   *)
(* a path of the right one only gives one 'added' item of severity 'low'   *)
(* with the right value, a path of the left one only one 'removed' item of *)
(* severity 'low' with the left value, a path of both with equal raw       *)
(* values no item, and a path of both with unequal raw values one          *)
(* 'changed' item with both raw values exactly when the compared values    *)
(* are unequal too; there are no other metadata items.                     *)
(***************************************************************************)
FlatOf(tree) == PyDict(collect_fields(DumpDocumentRoot(tree.document), ""))

MetadataExpected(lf, rf, p) ==
    IF p \notin DictKeys(lf)
    THEN <<[diff_type |-> "added", left_value |-> None,
            right_value |-> DictGet(rf, p), severity |-> "low"]>>
    ELSE IF p \notin DictKeys(rf)
    THEN <<[diff_type |-> "removed", left_value |-> DictGet(lf, p),
            right_value |-> None, severity |-> "low"]>>
    ELSE IF PyEq(DictGet(lf, p), DictGet(rf, p)) THEN <<>>
    ELSE IF ~PyEq(Compared(DictGet(lf, p)), Compared(DictGet(rf, p)))
    THEN <<[diff_type |-> "changed", left_value |-> DictGet(lf, p),
            right_value |-> DictGet(rf, p)]>>
    ELSE <<>>

\* the items at path p are the expected ones, field by field
MetadataAsExpected(items, expected) ==
    /\ Len(items) = Len(expected)
    /\ \A m \in 1..Len(expected) :
          \A f \in DOMAIN expected[m] : items[m][f] = expected[m][f]

\* the metadata items are those expected of the flat mappings lf and rf
MetadataClassified(metadata_diffs, lf, rf) ==
    /\ Paths(metadata_diffs) \subseteq DictKeys(lf) \cup DictKeys(rf)
    /\ \A p \in DictKeys(lf) \cup DictKeys(rf) :
          MetadataAsExpected(ItemsAt(metadata_diffs, p),
                             MetadataExpected(lf, rf, p))

MetadataClassification ==
    \A n \in LatestCall :
        MetadataClassified(ReportOf(n).metadata_diffs,
                           FlatOf(LeftOf(n)), FlatOf(RightOf(n)))

\* one report holds an 'added' and a 'changed' metadata item, the report of
\* the swapped call a 'removed' one
MetadataClassificationWitness ==
    \E i, j \in Calls :
        /\ \E m \in 1..Len(ReportOf(i).metadata_diffs) :
              ReportOf(i).metadata_diffs[m].diff_type = "added"
        /\ \E m \in 1..Len(ReportOf(i).metadata_diffs) :
              ReportOf(i).metadata_diffs[m].diff_type = "changed"
        /\ \E m \in 1..Len(ReportOf(j).metadata_diffs) :
              ReportOf(j).metadata_diffs[m].diff_type = "removed"

(***************************************************************************)
(* C10  Structure differ: page, table, form-field and signature counts of  *)
(* the content metadata and the number of parts are compared raw, an       *)
(* absent object or counter counting 0; an unequal pair gives one          *)
(* 'changed' item at 'content_metadata.<field>' or 'parts.length' with     *)
(* both counts, 'medium' for form_field_count and 'high' for the others,   *)
(* an equal pair none: at most 5 items.                                    *)
(***************************************************************************)
CounterOf(tree, field) ==
    IF IsNone(tree.document.content_metadata) THEN 0
    ELSE IF IsNone(tree.document.content_metadata[field]) THEN 0
    ELSE tree.document.content_metadata[field].i

StructureExpected(path, lcount, rcount, severity) ==
    IF lcount # rcount
    THEN <<DiffItem("changed", path, PyInt(lcount), PyInt(rcount), severity, "")>>
    ELSE <<>>

StructureFields ==
    {"page_count", "table_count", "form_field_count", "signature_count"}

StructureDiffer ==
    \A n \in LatestCall :
        /\ \A f \in StructureFields :
              ItemsAt(ReportOf(n).structure_diffs, "content_metadata." \o f)
                 = StructureExpected("content_metadata." \o f,
                                     CounterOf(LeftOf(n), f), CounterOf(RightOf(n), f),
                                     IF f = "form_field_count" THEN "medium" ELSE "high")
        /\ ItemsAt(ReportOf(n).structure_diffs, "parts.length")
              = StructureExpected("parts.length", Len(LeftOf(n).parts),
                                  Len(RightOf(n).parts), "high")
        /\ Paths(ReportOf(n).structure_diffs)
              \subseteq {"content_metadata." \o f : f \in StructureFields}
                        \cup {"parts.length"}
        /\ Len(ReportOf(n).structure_diffs) <= 5

\* a side without content metadata against one with every counter set and
\* one part more: five items, the form-field one 'medium'
StructureDifferWitness ==
    \E n \in Calls :
        /\ IsNone(LeftOf(n).document.content_metadata)
        /\ Len(ReportOf(n).structure_diffs) = 5
        /\ HasChanged(ReportOf(n).structure_diffs,
                      "content_metadata.form_field_count", "medium")
        /\ HasChanged(ReportOf(n).structure_diffs, "parts.length", "high")

(***************************************************************************)
(* C11  Token-set similarity: the text similarity is 1.0 when both texts   *)
(* are empty, 0.0 when exactly one is, and otherwise the number of common  *)
(* tokens over the number of tokens of either text, the tokens being the   *)
(* whitespace-separated words of the lower-cased text; it lies in [0, 1]   *)
(* and is 1.0 whenever the two token sets are equal.                       *)
(***************************************************************************)
TokensOf(text) == SplitSet(lower(text))

\* sim is the similarity claimed for the texts a and b of token sets aa, bb
TokenSetSimilarity(a, b, aa, bb, sim) ==
    /\ (a = "" /\ b = "") => sim = <<1, 1>>
    /\ ((a = "") # (b = "")) => sim = <<0, 1>>
    /\ (a # "" /\ b # "" /\ aa \cup bb # {}) =>
          sim = Ratio(Cardinality(aa \cap bb), Cardinality(aa \cup bb))
    /\ ~Less(sim, <<0, 1>>) /\ ~Less(<<1, 1>>, sim)
    /\ (a # "" /\ b # "" /\ aa = bb) => sim = <<1, 1>>

TokenSimilarity ==
    \A n \in Calls :
        TokenSetSimilarity(DocumentText(LeftOf(n).blocks),
                           DocumentText(RightOf(n).blocks),
                           TokensOf(DocumentText(LeftOf(n).blocks)),
                           TokensOf(DocumentText(RightOf(n).blocks)),
                           ReportOf(n).similarity_scores.document_level)

(***************************************************************************)
(* C12  Symmetry of the text score: compare(A, B) and compare(B, A) report *)
(* the same document_level and the same content_similarity, and a          *)
(* 'blocks.text' item is emitted in one direction exactly when it is       *)
(* emitted in the other, with the same severity.                           *)
(***************************************************************************)
SeveritiesOf(items) == [m \in 1..Len(items) |-> items[m].severity]

\* the reports rep and qer of the two directions agree on the text score
SameTextScore(rep, qer) ==
    /\ rep.similarity_scores.document_level
          = qer.similarity_scores.document_level
    /\ rep.similarity_scores.content_similarity
          = qer.similarity_scores.content_similarity
    /\ SeveritiesOf(ItemsAt(rep.content_diffs, "blocks.text"))
          = SeveritiesOf(ItemsAt(qer.content_diffs, "blocks.text"))

TextScoreSymmetry ==
    \A i \in Calls, j \in LatestCall :
        reports[i].swapped # reports[j].swapped =>
            SameTextScore(ReportOf(i), ReportOf(j))

\* both directions of two texts with a different number of tokens, some of
\* them common, have been compared and each reports the item
TextScoreSymmetryWitness ==
    \E i, j \in Calls :
        /\ ~reports[i].swapped /\ reports[j].swapped
        /\ Cardinality(TokensOf(DocumentText(left.blocks)))
              # Cardinality(TokensOf(DocumentText(right.blocks)))
        /\ Less(<<0, 1>>, SimilarityOf(i))
        /\ Len(TextItems(i)) = 1
        /\ Len(TextItems(j)) = 1

(***************************************************************************)
(* C13  Normalization options are honoured individually: with the rules    *)
(* {dates: false, currency: true} dates are not normalized and currency    *)
(* is ('2020/01/02' against '2020-01-02' is reported as changed), with     *)
(* {dates: true, currency: false} the converse ('$1,000' against '1000'    *)
(* is reported as changed), and with the rules omitted both are enabled:   *)
(* a key-value pair is reported as changed exactly when its two values     *)
(* differ once normalized with the enabled options.                        *)
(***************************************************************************)
\* whether the rules of a call enable the option `name`
RuleEnabled(rules, name) ==
    IF IsNone(rules) THEN TRUE ELSE Truthy(NormsGet(rules, name))

\* the values lv and rv of one key are reported as the options ask
HonouredAt(items, lv, rv, dates, currency) ==
    (items # <<>>)
        <=> ~PyEq(_normalize(lv, dates, currency), _normalize(rv, dates, currency))

RulesHonoured ==
    \A n \in Calls :
        LET rules == reports[n].options.normalization_rules
        IN  RuleEnabled(rules, "dates") \/ RuleEnabled(rules, "currency") =>
                \A k \in KvKeys(LeftOf(n).blocks) \cap KvKeys(RightOf(n).blocks) :
                    HonouredAt(ItemsAt(ReportOf(n).content_diffs, "kv." \o k),
                               KvValue(LeftOf(n).blocks, k),
                               KvValue(RightOf(n).blocks, k),
                               RuleEnabled(rules, "dates"),
                               RuleEnabled(rules, "currency"))

(***************************************************************************)
(* C14  Severity histogram: the summary of a diff list has exactly the     *)
(* four keys low, medium, high and critical, each bucket is the number of  *)
(* items of that severity (0 when there is none), and in a report of       *)
(* compare the four buckets add up to the lengths of the metadata, the     *)
(* structure and the content diff lists.                                   *)
(***************************************************************************)
\* h is the histogram of the severities of diffs
HistogramOf(h, diffs) ==
    /\ DOMAIN h = {"low", "medium", "high", "critical"}
    /\ \A sv \in DOMAIN h :
          h[sv] = Cardinality({m \in 1..Len(diffs) : diffs[m].severity = sv})

SeverityHistogram ==
    /\ \A m \in 1..Len(summary_out) : HistogramOf(summary_out[m], diff_list)
    /\ \A n \in LatestCall :
          /\ HistogramOf(ReportOf(n).severity_summary, AllDiffs(ReportOf(n)))
          /\ ReportOf(n).severity_summary.low
                + ReportOf(n).severity_summary.medium
                + ReportOf(n).severity_summary.high
                + ReportOf(n).severity_summary.critical
             = Len(ReportOf(n).metadata_diffs)
                  + Len(ReportOf(n).structure_diffs)
                  + Len(ReportOf(n).content_diffs)

\* a list of three items, none of them low, has been summarized
SeverityHistogramWitness ==
    /\ summary_out # <<>>
    /\ Len(diff_list) = 3
    /\ summary_out[1].low = 0
    /\ summary_out[1].critical = 1

(***************************************************************************)
(* C15  Narrative: the narrative of a diff list renders its first 10 items *)
(* as 'Added: <path>', 'Removed: <path>' or 'Changed: <path>' (every kind  *)
(* but added and removed, conflict included, as 'Changed'), joined by      *)
(* '; '; a list of N > 10 items ends with '... and <N-10> more'; the empty *)
(* list gives 'No significant differences'.  The narrative of a report is  *)
(* that of its metadata items, then its structure items, then its content  *)
(* items.                                                                  *)
(***************************************************************************)
Verb(diff_type) ==
    CASE diff_type = "added" -> "Added"
      [] diff_type = "removed" -> "Removed"
      [] OTHER -> "Changed"

Rendered(diffs, shown) ==
    IF diffs = <<>> THEN "No significant differences"
    ELSE Join("; ", [m \in 1..shown |->
                        Verb(diffs[m].diff_type) \o ": " \o diffs[m].path]
                    \o (IF Len(diffs) > 10
                        THEN <<"... and " \o ToString(Len(diffs) - 10) \o " more">>
                        ELSE <<>>))

NarrativeRendering ==
    /\ \A m \in 1..Len(narrative_out) :
          narrative_out[m] = Rendered(diff_list, Min({10, Len(diff_list)}))
    /\ \A n \in LatestCall :
          ReportOf(n).narrative_summary
             = Rendered(AllDiffs(ReportOf(n)),
                        Min({10, Len(AllDiffs(ReportOf(n)))}))

\* a list of more than 10 items with a conflict among the first 10 has been
\* narrated
NarrativeRenderingWitness ==
    /\ narrative_out # <<>>
    /\ Len(diff_list) > 11
    /\ \E m \in 1..10 : diff_list[m].diff_type = "conflict"

(***************************************************************************)
(* C16  Similarity scores: document_level and content_similarity are the   *)
(* token similarity of the two texts; metadata_similarity is               *)
(* max(0, 1 - m/20) for m metadata items (1.0 for none) and                *)
(* structure_similarity is max(0, 1 - s/5) for s structure items (1.0 for  *)
(* none, 0 for five); all four lie in [0, 1].                              *)
(***************************************************************************)
\* max(0, 1 - count / over)
Remaining(count, over) ==
    IF count >= over THEN <<0, 1>> ELSE Ratio(over - count, over)

InUnitInterval(p) == ~Less(p, <<0, 1>>) /\ ~Less(<<1, 1>>, p)

\* sc holds the scores of a report with m metadata and s structure items
\* on texts of similarity sim
ScoresAre(sc, m, s, sim) ==
    /\ sc.document_level = sim
    /\ sc.content_similarity = sim
    /\ sc.metadata_similarity = Remaining(m, 20)
    /\ sc.structure_similarity = Remaining(s, 5)
    /\ InUnitInterval(sc.document_level)
    /\ InUnitInterval(sc.content_similarity)
    /\ InUnitInterval(sc.metadata_similarity)
    /\ InUnitInterval(sc.structure_similarity)

SimilarityScores ==
    \A n \in LatestCall :
        ScoresAre(ReportOf(n).similarity_scores,
                  Len(ReportOf(n).metadata_diffs),
                  Len(ReportOf(n).structure_diffs), SimilarityOf(n))

\* a report with five structure items and one metadata item
SimilarityScoresWitness ==
    \E n \in Calls :
        /\ Len(ReportOf(n).structure_diffs) = 5
        /\ ReportOf(n).similarity_scores.structure_similarity = <<0, 1>>
        /\ ReportOf(n).similarity_scores.metadata_similarity = <<19, 20>>

(***************************************************************************)
(* C17  The similarity threshold and the document type have no influence:  *)
(* two invocations on the same trees that differ in these two arguments    *)
(* only return the same diff lists, status, scores, severity summary and   *)
(* narrative, and the 'blocks.text' item is emitted below the constant     *)
(* 0.95 whatever the threshold.                                            *)
(***************************************************************************)
ThresholdIgnored ==
    \A j \in LatestCall :
        /\ TextDiffEmitted(TextItems(j), SimilarityOf(j))
        /\ \A i \in Calls :
              (/\ reports[i].swapped = reports[j].swapped
               /\ reports[i].options.normalization_rules
                     = reports[j].options.normalization_rules) =>
                 Untimed(ReportOf(i)) = Untimed(ReportOf(j))

\* two texts of a similarity between 0.5 and 0.95 have been compared under
\* the thresholds 0.5 and 0.95, and under two document types, and the item
\* is emitted under the threshold 0.5
ThresholdIgnoredWitness ==
    \E i, j, k \in Calls :
        /\ reports[i].options.similarity_threshold = <<1, 2>>
        /\ reports[j].options.similarity_threshold = <<95, 100>>
        /\ reports[k].options.document_type # reports[j].options.document_type
        /\ Less(<<1, 2>>, SimilarityOf(i))
        /\ Len(TextItems(i)) = 1

(***************************************************************************)
(* C18  Statelessness and read-only inputs: no step of compare changes one *)
(* of the two input trees, and whatever the interleaving of concurrent     *)
(* invocations, on the same or on swapped inputs, each invocation returns  *)
(* the report content it returns when it runs alone.                       *)
(***************************************************************************)
\* the report of invocation t, had it run alone
Alone(t) == Call(TaskLeft(t), TaskRight(t), t)

Isolated ==
    \A t \in DOMAIN tasks :
        tasks[t].pc = "done" => Untimed(tasks[t].report[1]) = Untimed(Alone(t))

StatelessCompare ==
    /\ []Isolated
    /\ [][left' = left /\ right' = right]_vars

\* an invocation has returned a report with metadata, structure and content
\* items while another one, on the swapped inputs, is between its metadata
\* and structure differs
StatelessCompareWitness ==
    \E t, u \in DOMAIN tasks :
        /\ tasks[t].pc = "done"
        /\ tasks[t].report[1].metadata_diffs # <<>>
        /\ tasks[t].report[1].structure_diffs # <<>>
        /\ tasks[t].report[1].content_diffs # <<>>
        /\ tasks[u].pc = "structure"
        /\ tasks[u].swapped # tasks[t].swapped
        /\ tasks[u].metadata_diffs # <<>>

(***************************************************************************)
(* C19  compare never fails on valid trees: with any optional field absent *)
(* (embedded metadata, content metadata, parts, blocks, the content, key   *)
(* or value of a block, a counter) it returns a report; an absent counter  *)
(* counts as zero and an absent field as no information: the structure     *)
(* items are those of the trees with every counter filled in, the content  *)
(* items and the text score those of the trees without the blocks that     *)
(* have neither content nor key, and no item is reported for embedded      *)
(* metadata absent on both sides.                                          *)
(***************************************************************************)
\* the tree with 0 for every absent counter
ZeroFilled(tree) ==
    LET cm == tree.document.content_metadata
    IN  [tree EXCEPT !.document.content_metadata =
            IF IsNone(cm) THEN ContentMetadata(PyInt(0), 0, 0, 0)
            ELSE IF IsNone(cm.page_count) THEN [cm EXCEPT !.page_count = PyInt(0)]
            ELSE cm]

\* the tree without the blocks that carry neither content nor a key
Informative(tree) ==
    [tree EXCEPT !.blocks =
        SelectSeq(tree.blocks,
                  LAMBDA b : \/ ~IsNone(b.content)
                             \/ b.block_type = "kv" /\ ~IsNone(b.key)
                             \/ b.block_type = "table")]

\* the diff lists a and b hold the same items, path by path
SameItems(a, b) ==
    /\ Len(a) = Len(b)
    /\ \A p \in Paths(a) \cup Paths(b) : ItemsAt(a, p) = ItemsAt(b, p)

\* rep is a report of l and r in which absence is no information
AbsenceIsNoInformation(rep, l, r) ==
    /\ rep.status \in {"match", "partial_match", "conflict", "incompatible"}
    /\ rep.structure_diffs = _structure_diffs(ZeroFilled(l), ZeroFilled(r))
    /\ SameItems(rep.content_diffs,
                 _content_diffs(Informative(l), Informative(r),
                                NormalizationEnabled))
    /\ rep.similarity_scores.document_level
          = _text_similarity(DocumentText(Informative(l).blocks),
                             DocumentText(Informative(r).blocks))
    /\ (/\ IsNone(l.document.embedded_metadata)
        /\ IsNone(r.document.embedded_metadata)) =>
          "embedded_metadata" \notin Paths(rep.metadata_diffs)

NeverFails ==
    \A n \in LatestCall :
        AbsenceIsNoInformation(ReportOf(n), LeftOf(n), RightOf(n))

\* a tree without content metadata, embedded metadata, parts and blocks has
\* been compared with one whose page count is absent and whose other
\* counters are 0: no structure item
NeverFailsWitness ==
    \E n \in Calls :
        /\ IsNone(LeftOf(n).document.content_metadata)
        /\ IsNone(LeftOf(n).document.embedded_metadata)
        /\ LeftOf(n).parts = <<>> /\ LeftOf(n).blocks = <<>>
        /\ ~IsNone(RightOf(n).document.content_metadata)
        /\ IsNone(RightOf(n).document.content_metadata.page_count)
        /\ ReportOf(n).structure_diffs = <<>>

(***************************************************************************)
(* C20  Range of the status: the status of a report is 'match' or          *)
(* 'partial_match', never 'incompatible' and never 'conflict', because     *)
(* every item the differs emit is of kind added, removed or changed and of *)
(* severity low, medium or high; query_answer_diffs is empty and           *)
(* conflict_resolution is absent.                                          *)
(***************************************************************************)
\* diffs holds items of the three kinds and the three severities only
EmittedRange(diffs) ==
    \A m \in 1..Len(diffs) :
        /\ diffs[m].diff_type \in {"added", "removed", "changed"}
        /\ diffs[m].severity \in {"low", "medium", "high"}

StatusRange ==
    \A n \in LatestCall :
        /\ ReportOf(n).status \in {"match", "partial_match"}
        /\ EmittedRange(AllDiffs(ReportOf(n)))
        /\ ReportOf(n).query_answer_diffs = <<>>
        /\ IsNone(ReportOf(n).conflict_resolution)

\* two differing values of one key have been reported: 'changed', 'high',
\* status 'partial_match'
StatusRangeWitness ==
    \E n \in Calls :
        /\ ReportOf(n).status = "partial_match"
        /\ HasChanged(ReportOf(n).content_diffs, "kv.invoice number", "high")

(***************************************************************************)
(* C21  Report identity and provenance echo: the id of the report is the   *)
(* report id the caller supplies, and a freshly generated one when the     *)
(* caller supplies none; left_provenance and right_provenance are the      *)
(* provenance of the left and of the right tree, left_run_id and           *)
(* right_run_id their run identifiers.                                     *)
(***************************************************************************)
\* rep, the report of the call number n on l and r, carries the id asked for
\* and the provenance of l and r
IdentityEchoed(rep, l, r, report_id, n) ==
    /\ ~IsNone(report_id) => rep.id = report_id
    /\ IsNone(report_id) => rep.id = PyS("uuid-" \o ToString(n))
    /\ rep.left_provenance = l.provenance
    /\ rep.right_provenance = r.provenance
    /\ rep.left_run_id = l.provenance.run_id
    /\ rep.right_run_id = r.provenance.run_id

ReportIdentity ==
    \A n \in Calls :
        IdentityEchoed(ReportOf(n), LeftOf(n), RightOf(n),
                       reports[n].options.report_id, n - 1)

(***************************************************************************)
(* C22  Field flattener: the flat map of a document root holds exactly the *)
(* dotted paths of its leaves that are not None; a nested map is recursed  *)
(* into, its keys joined to the prefix with '.', unless one of its keys is *)
(* a geometry key (x, y, width, height), and then the map is one leaf.     *)
(* The technical, embedded and content metadata maps have no geometry key  *)
(* and are recursed into.                                                  *)
(***************************************************************************)
GeometryKeys == {"x", "y", "width", "height"}

HasGeometryKey(d) == \E n \in 1..Len(d.items) : d.items[n][1] \in GeometryKeys

\* the <<path, value>> pairs of the leaves of a map's items below prefix
RECURSIVE DottedLeaves(_, _)
DottedLeaves(items, prefix) ==
    UNION { LET k == items[n][1]
                v == items[n][2]
                path == IF prefix # "" THEN prefix \o "." \o k ELSE k
            IN  IF v.t = "dict" /\ ~HasGeometryKey(v)
                THEN DottedLeaves(v.items, path)
                ELSE IF IsNone(v) THEN {} ELSE {<<path, v>>}
          : n \in 1..Len(items) }

FlattensTo(flat, d) ==
    {flat[n] : n \in 1..Len(flat)} = DottedLeaves(d.items, "")

FieldFlattener ==
    \A n \in Calls :
        /\ FlattensTo(collect_fields(DumpDocumentRoot(LeftOf(n).document), ""),
                      DumpDocumentRoot(LeftOf(n).document))
        /\ FlattensTo(collect_fields(DumpDocumentRoot(RightOf(n).document), ""),
                      DumpDocumentRoot(RightOf(n).document))

(***************************************************************************)
(* C23  Date separators: with date normalization enabled, a text of the    *)
(* form <1-4 digits><sep><1-2 digits><sep><1-4 digits>, each separator     *)
(* being '-', '/' or a space, is returned with both separators rewritten   *)
(* to '-' and its digits as they are, so '2020/01/02', '2020 01 02' and    *)
(* '2020-01-02' normalize to the same string.                              *)
(***************************************************************************)
IsDateSeparator(c) == c \in {"-", "/", " "}

\* s is <a digits><sep><b digits><sep><digits>
DateFormAt(s, a, b) ==
    /\ DigitRun(s, 1) = a
    /\ IsDateSeparator(CharAt(s, a + 1))
    /\ DigitRun(s, a + 2) = b
    /\ IsDateSeparator(CharAt(s, a + b + 2))
    /\ DigitRun(s, a + b + 3) = Len(s) - (a + b + 2)
    /\ Len(s) - (a + b + 2) \in 1..4

IsDateForm(s) == \E a \in 1..4, b \in 1..2 : DateFormAt(s, a, b)

\* s with its separators rewritten to '-'
Dashed(s) ==
    Rewrite(s, [i \in {j \in 1..Len(s) : IsDateSeparator(CharAt(s, j))} |-> "-"])

\* _normalize has returned for a text, called with the two flags
NormalizedText(dates, currency) ==
    /\ normalized # <<>>
    /\ normalize_args.value.t = "str"
    /\ normalize_args.normalize_dates = dates
    /\ normalize_args.normalize_currency = currency

DateSeparators ==
    \A currency \in BOOLEAN :
        (NormalizedText(TRUE, currency) /\ IsDateForm(normalize_args.value.s))
            => normalized[1] = PyS(Dashed(normalize_args.value.s))

(***************************************************************************)
(* C24  Currency: with currency normalization enabled, each currency       *)
(* symbol ($, €, £) goes together with the whitespace that follows it, and *)
(* a comma goes if and only if exactly three digits follow it; a comma     *)
(* followed by fewer or by more digits stays, and no other character       *)
(* changes.                                                                *)
(***************************************************************************)
\* the character at position i of s is whitespace that follows a symbol
FollowsSymbol(s, i) ==
    /\ IsSpace(CharAt(s, i))
    /\ \E j \in 1..(i - 1) :
          /\ CharAt(s, j) \in {"$", "€", "£"}
          /\ \A m \in (j + 1)..i : IsSpace(CharAt(s, m))

ThousandsComma(s, i) == CharAt(s, i) = "," /\ DigitRun(s, i + 1) = 3

\* s without its symbols, the whitespace behind them and its thousands
\* separators
CurrencyStripped(s) ==
    Rewrite(s, [i \in {j \in 1..Len(s) :
                        \/ CharAt(s, j) \in {"$", "€", "£"}
                        \/ FollowsSymbol(s, j)
                        \/ ThousandsComma(s, j)}
                  |-> ""])

CurrencyNormalization ==
    NormalizedText(FALSE, TRUE) =>
        normalized[1]
            = PyS(CurrencyStripped(NormalizeText(normalize_args.value.s,
                                                 FALSE, FALSE)))

(***************************************************************************)
(* C25  Basic canonicalization: _normalize returns None for None and a     *)
(* number or a boolean as it is; any other value becomes its text,         *)
(* trimmed, lower-cased and with each run of whitespace collapsed to one   *)
(* space, so two texts that differ in case, surrounding whitespace or the  *)
(* length of whitespace runs only normalize to equal strings, and compare  *)
(* with normalization enabled reports no change between them.              *)
(***************************************************************************)
\* the maximal whitespace-free pieces of s, in their order
RECURSIVE WordsOf(_)
WordsAfter(r, tok) ==
    IF tok = "" THEN <<>> ELSE <<tok>> \o WordsOf(SubSeq(r, Len(tok) + 1, Len(r)))
WordsOf(s) == WordsAfter(lstrip(s), FirstToken(lstrip(s)))

\* s trimmed, lower-cased, its whitespace runs collapsed
Canonical(s) == lower(Join(" ", WordsOf(s)))

\* the text of the value of the one key/value block of a tree
OnlyKvText(tree) == PyStr(tree.blocks[1].value)

CanonicalOf(v, out, dates, currency) ==
    /\ IsNone(v) => out = None
    /\ v.t \in {"int", "bool"} => out = v
    /\ (~IsNone(v) /\ v.t \notin {"int", "bool"}) =>
          /\ out.t = "str"
          /\ out = _normalize(PyS(Canonical(PyStr(v))), dates, currency)
          /\ (~dates /\ ~currency) => out.s = Canonical(PyStr(v))

BasicCanonicalization ==
    /\ normalized # <<>> =>
          CanonicalOf(normalize_args.value, normalized[1],
                      normalize_args.normalize_dates,
                      normalize_args.normalize_currency)
    /\ \A n \in LatestCall :
          (/\ NormalizationEnabled
           /\ Canonical(OnlyKvText(left)) = Canonical(OnlyKvText(right)))
              => ReportOf(n).content_diffs = <<>>

\* _normalize has returned for a text in upper case with whitespace runs,
\* and compare for two trees whose values differ in case and whitespace
BasicCanonicalizationWitness ==
    /\ normalized = <<PyS("hello world")>>
    /\ normalize_args.value = PyS("HELLO\tWORLD")
    /\ NormalizationEnabled
    /\ reports # <<>>
    /\ OnlyKvText(left) # OnlyKvText(right)
    /\ Canonical(OnlyKvText(left)) = Canonical(OnlyKvText(right))

(***************************************************************************)
(* C26  Key/value fallback: the value compared for a key/value block is    *)
(* its typed value whenever there is one, 0, False and the empty string    *)
(* included, and the textual content of the block only when the typed      *)
(* value is None.                                                          *)
(***************************************************************************)
TypedOrContent(b) == IF IsNone(b.value) THEN b.content ELSE b.value

\* the value of the last block of the key k, by the rule above
FallbackValue(blocks, k) ==
    LET of_key == SelectSeq(blocks, LAMBDA b : IsKv(b) /\ KvKeyOf(b) = k)
    IN  TypedOrContent(of_key[Len(of_key)])

\* the items at the path of a key that has the value lv on the left and rv
\* on the right, neither being None
FallbackExpected(k, lv, rv) ==
    IF Compared(lv) # Compared(rv)
    THEN <<DiffItem("changed", "kv." \o k, lv, rv, "high", "")>>
    ELSE <<>>

KvFallback ==
    \A n \in Calls :
        \A k \in KvKeys(LeftOf(n).blocks) \cap KvKeys(RightOf(n).blocks) :
            (/\ ~IsNone(FallbackValue(LeftOf(n).blocks, k))
             /\ ~IsNone(FallbackValue(RightOf(n).blocks, k)))
                => ItemsAt(ReportOf(n).content_diffs, "kv." \o k)
                      = FallbackExpected(k, FallbackValue(LeftOf(n).blocks, k),
                                         FallbackValue(RightOf(n).blocks, k))

(***************************************************************************)
(* C27  Tabular block count: content_diffs holds one 'changed' item of     *)
(* severity 'high' at 'blocks.table_count', with the two counts as its     *)
(* left and right value, exactly when the two block lists differ in their  *)
(* number of blocks of kind 'table'; the counts are those of the block     *)
(* lists, whatever content_metadata.table_count says.                      *)
(***************************************************************************)
TablesOf(tree) ==
    Cardinality({m \in 1..Len(tree.blocks) : tree.blocks[m].block_type = "table"})

TableItemExpected(lc, rc) ==
    IF lc # rc
    THEN <<DiffItem("changed", "blocks.table_count", PyInt(lc), PyInt(rc),
                    "high", "")>>
    ELSE <<>>

TabularBlockCount ==
    \A n \in LatestCall :
        ItemsAt(ReportOf(n).content_diffs, "blocks.table_count")
            = TableItemExpected(TablesOf(LeftOf(n)), TablesOf(RightOf(n)))

\* one table against two in trees without content metadata
TabularBlockCountWitness ==
    \E n \in LatestCall :
        /\ TablesOf(LeftOf(n)) = 1
        /\ TablesOf(RightOf(n)) = 2
        /\ IsNone(LeftOf(n).document.content_metadata)
        /\ IsNone(RightOf(n).document.content_metadata)
        /\ Len(ItemsAt(ReportOf(n).content_diffs, "blocks.table_count")) = 1

(***************************************************************************)
(* C29  Path uniqueness: in a report no two items of metadata_diffs share  *)
(* a path, no two items of structure_diffs and no two items of             *)
(* content_diffs: at most one item at 'blocks.text', at most one at        *)
(* 'blocks.table_count' and at most one for each lower-cased key, also     *)
(* when several blocks of one side carry the key.                          *)
(***************************************************************************)
DistinctPaths(diffs) ==
    \A i, j \in 1..Len(diffs) : diffs[i].path = diffs[j].path => i = j

\* the blocks of a tree that carry the lower-cased key k
BlocksOfKey(tree, k) ==
    {m \in 1..Len(tree.blocks) : IsKv(tree.blocks[m]) /\ KvKeyOf(tree.blocks[m]) = k}

PathUniqueness ==
    \A n \in LatestCall :
        /\ DistinctPaths(ReportOf(n).metadata_diffs)
        /\ DistinctPaths(ReportOf(n).structure_diffs)
        /\ DistinctPaths(ReportOf(n).content_diffs)

\* two blocks of one side carry the key 'a', which the other side has too
PathUniquenessWitness ==
    \E n \in LatestCall :
        /\ Cardinality(BlocksOfKey(RightOf(n), "a")) = 2
        /\ Cardinality(BlocksOfKey(LeftOf(n), "a")) = 1
        /\ Len(ItemsAt(ReportOf(n).content_diffs, "kv.a")) = 1
        /\ Len(ReportOf(n).content_diffs) = 2

(***************************************************************************)
(* C28  Row-per-diff export: the CSV export of a report produced by        *)
(* compare succeeds and has one row for each item of its metadata,         *)
(* structure and content lists, in that order of the sections, under the   *)
(* header section, diff_type, path, severity, left_value, right_value,     *)
(* confidence; the export of a report without items is the header line     *)
(* alone.                                                                  *)
(***************************************************************************)
\* the report the export endpoint finds for a job
ExportedReport(job_id) ==
    IF job_id \in DOMAIN _compare_jobs THEN _compare_jobs[job_id].report
    ELSE load_comparison_report(db, job_id)

\* the number of lines of a CSV text
LinesOf(text) ==
    Cardinality({i \in 1..(Len(text) - 1) : SubSeq(text, i, i + 1) = "\r\n"})

\* the text is the header and one line for each item of the report, whose
\* section, kind, path and severity are those of the item
ExportOf(text, items) ==
    /\ SubSeq(text, 1, Len(CsvHeader)) = CsvHeader
    /\ LinesOf(text) = 1 + Len(items)
    /\ items = <<>> => text = CsvHeader
    /\ \A n \in 1..Len(items) :
          Contains(text, "\r\n" \o items[n][1] \o "," \o items[n][2].diff_type
                         \o "," \o items[n][2].path \o ","
                         \o items[n][2].severity \o ",")

RowPerDiff ==
    (response.endpoint = "report.csv" /\ response.code \notin {202, 404}) =>
        /\ response.code = 200
        /\ ExportOf(response.csv, SectionItems(ExportedReport(response.job_id)))

(***************************************************************************)
(* C30  Job lifecycle: a job of compare_async starts in status 'running'   *)
(* and moves to one terminal status, 'completed' or 'failed', which never  *)
(* changes afterwards, whatever requests are served in between; a job is   *)
(* 'completed' only if its report is in its entry and has been persisted,  *)
(* a 'failed' job has an error and no report, and the report endpoint      *)
(* returns a report only for a job whose status is 'completed'.            *)
(***************************************************************************)
Terminal == {"completed", "failed"}

\* what the entry of a job holds in each status
JobEntryOk(job_id, j) ==
    /\ j.status \in {"running"} \cup Terminal
    /\ j.status = "completed" =>
          /\ IsReport(j.report)
          /\ job_id \in DOMAIN db
          /\ db[job_id] = j.report
    /\ j.status = "failed" => (~IsNone(j.error) /\ ~IsReport(j.report))

\* a step creates a job as 'running', takes a running job to a terminal
\* status or leaves its status alone; a restarted service has no jobs
JobStepOk(job_id) ==
    /\ (job_id \notin DOMAIN _compare_jobs /\ job_id \in DOMAIN _compare_jobs')
          => _compare_jobs'[job_id].status = "running"
    /\ (job_id \in DOMAIN _compare_jobs /\ job_id \in DOMAIN _compare_jobs'
        /\ _compare_jobs[job_id].status \in Terminal)
          => _compare_jobs'[job_id].status = _compare_jobs[job_id].status

\* the report endpoint answers with a report for a completed job only
ReportServedOk ==
    (response' # response /\ response'.endpoint = "report"
     /\ response'.report # <<>> /\ response'.job_id \in DOMAIN _compare_jobs')
        => _compare_jobs'[response'.job_id].status = "completed"

JobLifecycle ==
    /\ [](\A job_id \in DOMAIN _compare_jobs :
              JobEntryOk(job_id, _compare_jobs[job_id]))
    /\ [][(\A job_id \in JobIds : JobStepOk(job_id)) /\ ReportServedOk]_vars

=============================================================================
